---- MODULE Spec2Model ----
(***************************************************************************)
(* State-machine model of scripts/memory.ts (zo-memory-system v2): the     *)
(* fact store with tiered expiry, best-effort embeddings, the lexical      *)
(* search (ftsSearch) and the hybrid search with RRF fusion (hybridSearch).*)
(*                                                                         *)
(* Conventions                                                             *)
(*  - strings the code inspects character by character (queries, provider  *)
(*    responses, fact text) are sequences of one-character strings;        *)
(*  - a nullable value is <<>> (null/undefined) or <<v>>;                  *)
(*  - REAL columns and scores are exact rationals <<num, den>>, den > 0,   *)
(*    in lowest terms (floating-point rounding is not modelled);           *)
(*  - instants are seconds, Date.now() is the pair [sec, ms].              *)
(***************************************************************************)
EXTENDS Integers, Sequences, FiniteSets, TLC

VARIABLES
  now,          \* wall clock, whole seconds
  facts,        \* table facts: sequence of rows in rowid order
  embeddings,   \* table fact_embeddings: sequence of rows [fact_id, embedding]
  nextId,       \* source of fresh ids (randomUUID)
  ticks,        \* number of clock advances so far (bounded)
  st,           \* the store invocation in flight (storeWithEmbedding)
  hs,           \* the hybrid search invocation in flight (hybridSearch)
  fs,           \* the lexical search invocation (ftsSearch)
  bf,           \* the backfill invocation in flight (backfillEmbeddings)
  cli,          \* the command-line invocation (main)
  cw,           \* two store invocations from independent processes, and the write lock
  net,          \* whether the providers still answer
  pr            \* the last maintenance pass that deleted facts (prune)

vars == <<now, facts, embeddings, nextId, ticks, st, hs, fs, bf, cli, cw, net, pr>>

----------------------------------------------------------------------------
(* Bounds of the model *)

MaxFacts == 2
MaxTicks == 1
MaxPrunes == 2

----------------------------------------------------------------------------
(* Generic helpers *)

None == <<>>
Some(v) == <<v>>
IsNull(x) == x = <<>>
Val(x) == x[1]

Min2(a, b) == IF a <= b THEN a ELSE b
Max2(a, b) == IF a >= b THEN a ELSE b

RECURSIVE Gcd(_, _)
Gcd(a, b) == IF b = 0 THEN a ELSE Gcd(b, a % b)

Abs(x) == IF x < 0 THEN 0 - x ELSE x

\* rational n/d in lowest terms with positive denominator
Rat(n, d) ==
  LET s == IF d < 0 THEN 0 - 1 ELSE 1
      g == Gcd(Abs(n), Abs(d))
  IN  <<(s * n) \div g, (s * d) \div g>>

RLcm(a, b) == (a[2] \div Gcd(a[2], b[2])) * b[2]
RNum(a, l) == a[1] * (l \div a[2])
RAdd(a, b) == LET l == RLcm(a, b) IN Rat(RNum(a, l) + RNum(b, l), l)
RSub(a, b) == LET l == RLcm(a, b) IN Rat(RNum(a, l) - RNum(b, l), l)
RMul(a, b) ==
  LET g1 == Gcd(Abs(a[1]), b[2])
      g2 == Gcd(Abs(b[1]), a[2])
  IN  Rat((a[1] \div g1) * (b[1] \div g2), (a[2] \div g2) * (b[2] \div g1))
RDiv(a, b) == RMul(a, Rat(b[2], b[1]))
RLess(a, b) == LET l == RLcm(a, b) IN RNum(a, l) < RNum(b, l)
RLeq(a, b) == LET l == RLcm(a, b) IN RNum(a, l) <= RNum(b, l)
RZero == Rat(0, 1)
ROne == Rat(1, 1)
RMax(a, b) == IF RLess(a, b) THEN b ELSE a
RMin(a, b) == IF RLess(b, a) THEN b ELSE a

\* Array.prototype.sort under a comparator that orders x before y exactly when
\* Before(x, y): the sort is stable, so elements that compare equal keep
\* their order
SortPos(s, i, Before(_, _)) ==
  1 + Cardinality({j \in 1..Len(s) :
                     Before(s[j], s[i]) \/ (j < i /\ ~Before(s[i], s[j]))})
StableSort(s, Before(_, _)) ==
  [k \in 1..Len(s) |-> s[CHOOSE i \in 1..Len(s) : SortPos(s, i, Before) = k]]

Take(s, n) == SubSeq(s, 1, Min2(n, Len(s)))

Range(s) == {s[i] : i \in 1..Len(s)}

\* index of the first element of s satisfying P, 0 if none
IndexOf(s, P(_)) ==
  IF \E i \in 1..Len(s) : P(s[i])
  THEN CHOOSE i \in 1..Len(s) : P(s[i]) /\ \A j \in 1..(i - 1) : ~P(s[j])
  ELSE 0

----------------------------------------------------------------------------
(* Strings as character sequences *)

IsSpace(c) == c = " "
IsQuote(c) == c \in {"'", "\""}
IsLetter(c) == c \in {"a", "b", "c", "d", "e", "f", "t", "x"}

\* String.prototype.trim
RECURSIVE TrimLeft(_)
TrimLeft(s) == IF s # <<>> /\ IsSpace(Head(s)) THEN TrimLeft(Tail(s)) ELSE s
RECURSIVE TrimRight(_)
TrimRight(s) ==
  IF s # <<>> /\ IsSpace(s[Len(s)]) THEN TrimRight(SubSeq(s, 1, Len(s) - 1)) ELSE s
Trim(s) == TrimRight(TrimLeft(s))

\* s.replace(/['"]/g, "")
StripQuotes(s) == SelectSeq(s, LAMBDA c : ~IsQuote(c))

\* s.split(/\s+/): pieces between maximal whitespace runs; a leading or a
\* trailing run leaves an empty piece
RECURSIVE SplitFrom(_, _, _, _)
SplitFrom(s, i, cur, acc) ==
  IF i > Len(s) THEN Append(acc, cur)
  ELSE IF IsSpace(s[i])
       THEN IF i > 1 /\ IsSpace(s[i - 1])
            THEN SplitFrom(s, i + 1, cur, acc)
            ELSE SplitFrom(s, i + 1, <<>>, Append(acc, cur))
       ELSE SplitFrom(s, i + 1, Append(cur, s[i]), acc)
SplitWs(s) == SplitFrom(s, 1, <<>>, <<>>)

\* a filter that keeps the one-character tokens
Mut_SafeTokensKeepShort(q) == SelectSeq(SplitWs(StripQuotes(q)), LAMBDA w : Len(w) > 0)

\* .replace(/['"]/g, "").split(/\s+/).filter((w) => w.length > 1)
SafeTokens(q) == SelectSeq(SplitWs(StripQuotes(q)), LAMBDA w : Len(w) > 1)

\* .map((w) => `"${w}"`).join(" OR "): the empty string when no token survives
RECURSIVE JoinOr(_)
JoinOr(ws) ==
  IF ws = <<>> THEN <<>>
  ELSE IF Len(ws) = 1 THEN <<"\"">> \o ws[1] \o <<"\"">>
  ELSE <<"\"">> \o ws[1] \o <<"\"">> \o <<" ", "O", "R", " ">> \o JoinOr(Tail(ws))

SafeQuery(q) == JoinOr(SafeTokens(q))

\* the index's reading of a MATCH expression of quoted strings and OR: the
\* phrases between the quotes, which are alternatives
RECURSIVE PhrasesFrom(_, _, _, _, _)
PhrasesFrom(s, i, inq, cur, acc) ==
  IF i > Len(s) THEN acc
  ELSE IF s[i] = "\""
       THEN IF inq THEN PhrasesFrom(s, i + 1, FALSE, <<>>, Append(acc, cur))
            ELSE PhrasesFrom(s, i + 1, TRUE, <<>>, acc)
       ELSE PhrasesFrom(s, i + 1, inq, IF inq THEN Append(cur, s[i]) ELSE cur, acc)
MatchPhrases(s) == PhrasesFrom(s, 1, FALSE, <<>>, <<>>)

\* the FTS5 tokenizer (unicode61): maximal runs of letters
RECURSIVE TokensFrom(_, _, _, _)
TokensFrom(s, i, cur, acc) ==
  IF i > Len(s) THEN (IF cur = <<>> THEN acc ELSE Append(acc, cur))
  ELSE IF IsLetter(s[i])
       THEN TokensFrom(s, i + 1, Append(cur, s[i]), acc)
       ELSE TokensFrom(s, i + 1, <<>>, IF cur = <<>> THEN acc ELSE Append(acc, cur))
FtsTokens(s) == TokensFrom(s, 1, <<>>, <<>>)

Count(s, x) == Cardinality({i \in 1..Len(s) : s[i] = x})

----------------------------------------------------------------------------
(* Data model *)

DecayClasses == {"permanent", "stable", "active", "session", "checkpoint"}

\* TTL_DEFAULTS, seconds; null for permanent
TTL_DEFAULTS ==
  [c \in DecayClasses |->
     CASE c = "permanent"  -> None
       [] c = "stable"     -> Some(90 * 24 * 3600)
       [] c = "active"     -> Some(14 * 24 * 3600)
       [] c = "session"    -> Some(24 * 3600)
       [] c = "checkpoint" -> Some(4 * 3600)]

\* TTL_DEFAULTS[decayClass] as JavaScript reads it: undefined for a missing key
TtlOf(c) == IF c \in DecayClasses THEN TTL_DEFAULTS[c] ELSE None

W_ab == <<"a", "b">>
W_cd == <<"c", "d">>
W_ef == <<"e", "f">>
W_xx == <<"x", "x">>
W_fact == <<"f", "a", "c", "t">>
Sp == <<" ">>

\* the entries handed to storeWithEmbedding
E_perm ==
  [persona |-> "shared", entity |-> W_ab, key |-> None, value |-> W_cd,
   text |-> None, category |-> W_fact, decayClass |-> Some("permanent"),
   importance |-> Rat(1, 1), confidence |-> Rat(1, 1)]
E_stable ==
  [persona |-> "p1", entity |-> W_ab, key |-> Some(W_ef), value |-> W_ab,
   text |-> Some(W_ab \o Sp \o W_ab), category |-> W_fact, decayClass |-> None,
   importance |-> Rat(1, 2), confidence |-> Rat(9, 10)]
E_active ==
  [persona |-> "shared", entity |-> W_cd, key |-> None, value |-> W_ef,
   text |-> Some(W_cd \o Sp \o W_ef), category |-> W_fact, decayClass |-> Some("active"),
   importance |-> Rat(1, 1), confidence |-> Rat(2, 5)]
E_session ==
  [persona |-> "p1", entity |-> W_cd, key |-> None, value |-> W_cd,
   text |-> Some(<<>>), category |-> W_fact, decayClass |-> Some("session"),
   importance |-> Rat(1, 1), confidence |-> Rat(1, 1)]
E_checkpoint ==
  [persona |-> "shared", entity |-> W_ef, key |-> Some(W_ab), value |-> W_ef,
   text |-> None, category |-> W_fact, decayClass |-> Some("checkpoint"),
   importance |-> Rat(0, 1), confidence |-> Rat(0, 1)]
Entries == {E_perm, E_stable, E_active, E_session, E_checkpoint}
\* a fact about four words, each once
E_floor ==
  [persona |-> "shared", entity |-> W_ab, key |-> Some(W_cd), value |-> W_ef,
   text |-> Some(W_ab \o Sp \o W_cd \o Sp \o W_ef \o Sp \o W_xx), category |-> W_fact,
   decayClass |-> Some("permanent"), importance |-> Rat(1, 1), confidence |-> Rat(1, 1)]
\* the entries stored in the runs about the vector scan
VectorEntries == {E_floor, E_perm, E_checkpoint}
\* the entries stored in the runs that also search
SearchEntries == {E_perm, E_stable, E_checkpoint}

\* Date.now(), milliseconds, as seconds and the milliseconds within the second
DateNow == [sec |-> now, ms |-> 250]
\* Math.floor(ms / 1000)
FloorSec(t) == t.sec + (t.ms \div 1000)

\* entry.text || `${entity} ${key || ""}: ${value}`  (an empty text is falsy)
TextOf(e) ==
  IF ~IsNull(e.text) /\ Val(e.text) # <<>>
  THEN Val(e.text)
  ELSE e.entity \o Sp \o (IF IsNull(e.key) THEN <<>> ELSE Val(e.key)) \o <<":", " ">> \o e.value

\* a store that defaults the tier to "active"
Mut_DecayOf(e) == IF IsNull(e.decayClass) THEN "active" ELSE Val(e.decayClass)

\* entry.decayClass || "stable"
DecayOf(e) == IF IsNull(e.decayClass) THEN "stable" ELSE Val(e.decayClass)

\* TTL_DEFAULTS[decayClass] ? nowSec + TTL_DEFAULTS[decayClass] : null
\* (a TTL of 0 would be falsy as well)
ExpiresAt(decayClass, nowSec) ==
  LET ttl == TtlOf(decayClass)
  IN  IF ~IsNull(ttl) /\ Val(ttl) # 0 THEN Some(nowSec + Val(ttl)) ELSE None

\* the row INSERTed into facts
FactRow(id, e, t) ==
  [id |-> id, persona |-> e.persona, entity |-> e.entity, key |-> e.key,
   value |-> e.value, text |-> TextOf(e), category |-> e.category,
   decay_class |-> DecayOf(e), importance |-> e.importance,
   created_at |-> t, expires_at |-> ExpiresAt(DecayOf(e), FloorSec(t)),
   last_accessed |-> FloorSec(t), confidence |-> e.confidence]

----------------------------------------------------------------------------
(* The embedding provider and getEmbedding *)

\* the vector the provider computes for a text (a four-dimensional stand-in
\* for nomic-embed-text: one axis per word of the vocabulary)
EmbedOf(text) ==
  LET t == FtsTokens(text)
  IN  <<Count(t, W_ab), Count(t, W_cd), Count(t, W_ef), Count(t, W_xx)>>

\* what one call of the provider does
EmbedFailures == {"timeout", "http_error", "bad_json", "no_field"}
EmbedOutcomes == {"ok", "empty"} \cup EmbedFailures

\* a getEmbedding without the response.ok check, the error body carrying a vector
Mut_GetEmbeddingNoStatus(text, outcome) ==
  CASE outcome \in {"ok", "http_error"} -> Some(EmbedOf(Take(text, 8000)))
    [] outcome = "empty" -> Some(<<>>)
    [] OTHER             -> None

\* a getEmbedding whose catch block returns [] instead of null
Mut_GetEmbeddingCatch(text, outcome) ==
  CASE outcome = "ok"    -> Some(EmbedOf(Take(text, 8000)))
    [] outcome \in {"empty", "timeout", "bad_json"} -> Some(<<>>)
    [] OTHER             -> None

\* getEmbedding: null when fetch or response.json() throws or the status is
\* not ok; otherwise data.embedding, whatever it is (undefined when the field
\* is missing, [] when the provider sends an empty vector)
GetEmbedding(text, outcome) ==
  CASE outcome = "ok"    -> Some(EmbedOf(Take(text, 8000)))
    [] outcome = "empty" -> Some(<<>>)
    [] OTHER             -> None

----------------------------------------------------------------------------
(* The lexical index (facts_fts) *)

\* the indexed columns of a row, tokenized: text, entity, key, value, category
DocColumns(row) ==
  <<FtsTokens(row.text), FtsTokens(row.entity),
    IF IsNull(row.key) THEN <<>> ELSE FtsTokens(Val(row.key)),
    FtsTokens(row.value), FtsTokens(row.category)>>

\* occurrences of the phrase p (a token sequence) in the token sequence c
PhraseHits(c, p) ==
  IF p = <<>> THEN 0
  ELSE Cardinality({o \in 1..(Len(c) - Len(p) + 1) : SubSeq(c, o, o + Len(p) - 1) = p})

RECURSIVE SumSeq(_)
SumSeq(s) == IF s = <<>> THEN 0 ELSE Head(s) + SumSeq(Tail(s))

\* occurrences of one quoted query token (a phrase) in a row
TokenHits(row, w) ==
  LET cols == DocColumns(row)
  IN  SumSeq([c \in 1..Len(cols) |-> PhraseHits(cols[c], FtsTokens(w))])

\* facts_fts MATCH '"t1" OR "t2" ...'
FtsMatches(row, tokens) == \E i \in 1..Len(tokens) : TokenHits(row, tokens[i]) > 0

\* the index's relevance rank (bm25): negative, lower is better; here minus
\* the number of occurrences of the query's tokens in the row
FtsRank(row, tokens) ==
  0 - SumSeq([i \in 1..Len(tokens) |-> TokenHits(row, tokens[i])])

\* an expiry filter that keeps the fact expiring at this very second
Mut_Unexpired(row, nowSec) == IsNull(row.expires_at) \/ Val(row.expires_at) >= nowSec

\* (f.expires_at IS NULL OR f.expires_at > ?)
Unexpired(row, nowSec) == IsNull(row.expires_at) \/ Val(row.expires_at) > nowSec

\* ${persona ? "AND f.persona = ?" : ""}
PersonaOk(row, persona) == IsNull(persona) \/ row.persona = Val(persona)

\* SELECT f.*, rank FROM facts f JOIN facts_fts ... WHERE facts_fts MATCH ?
\*   AND (expires_at IS NULL OR expires_at > ?) [AND persona = ?]
\*   ORDER BY rank LIMIT n        (equal ranks come in rowid order)
FtsQuery(tokens, nowSec, persona, n) ==
  LET hit == SelectSeq(facts, LAMBDA r : FtsMatches(r, tokens) /\ Unexpired(r, nowSec)
                                          /\ PersonaOk(r, persona))
      ranked == [i \in 1..Len(hit) |-> [row |-> hit[i], rank |-> FtsRank(hit[i], tokens)]]
  IN  Take(StableSort(ranked, LAMBDA x, y : x.rank < y.rank), n)

\* rowToEntry: decay_class, importance and confidence fall back when falsy
RowToEntry(row) ==
  [id |-> row.id, persona |-> row.persona, entity |-> row.entity, key |-> row.key,
   value |-> row.value, text |-> row.text, category |-> row.category,
   decayClass |-> row.decay_class,
   importance |-> IF row.importance = RZero THEN ROne ELSE row.importance,
   createdAt |-> row.created_at, expiresAt |-> row.expires_at,
   lastAccessed |-> row.last_accessed,
   confidence |-> IF row.confidence = RZero THEN ROne ELSE row.confidence]

\* Map.prototype.set on a map kept as a sequence of records keyed by id, in
\* insertion order: an existing key keeps its place
MapHas(m, id) == \E i \in 1..Len(m) : m[i].id = id
MapGet(m, id) == m[CHOOSE i \in 1..Len(m) : m[i].id = id]
MapSet(m, rec) ==
  IF MapHas(m, rec.id)
  THEN [i \in 1..Len(m) |-> IF m[i].id = rec.id THEN rec ELSE m[i]]
  ELSE Append(m, rec)
MapIds(m) == {m[i].id : i \in 1..Len(m)}

\* a merge that lets the last variant win
RECURSIVE Mut_MergeRowsLast(_, _, _)
Mut_MergeRowsLast(m, rows, qv) ==
  IF rows = <<>> THEN m
  ELSE LET r == Head(rows)
       IN  Mut_MergeRowsLast(
             MapSet(m, [id |-> r.row.id, entry |-> RowToEntry(r.row), rank |-> r.rank,
                        source |-> <<"fts", Take(qv, 30)>>]),
             Tail(rows), qv)

\* the loop over the rows of one variant: keep the lower rank per id
RECURSIVE MergeRows(_, _, _)
MergeRows(m, rows, qv) ==
  IF rows = <<>> THEN m
  ELSE LET r == Head(rows)
           id == r.row.id
           m2 == IF ~MapHas(m, id) \/ r.rank < MapGet(m, id).rank
                 THEN MapSet(m, [id |-> id, entry |-> RowToEntry(r.row), rank |-> r.rank,
                                 source |-> <<"fts", Take(qv, 30)>>])
                 ELSE m
       IN  MergeRows(m2, Tail(rows), qv)

\* the loop over the query variants; a variant without a surviving token is
\* skipped
RECURSIVE CollectFts(_, _, _, _, _)
CollectFts(m, variants, nowSec, persona, limit) ==
  IF variants = <<>> THEN m
  ELSE LET qv == Head(variants)
           safeQuery == SafeQuery(qv)
           m2 == IF safeQuery = <<>> THEN m
                 ELSE MergeRows(m, FtsQuery(MatchPhrases(safeQuery), nowSec, persona, limit * 2),
                                qv)
       IN  CollectFts(m2, Tail(variants), nowSec, persona, limit)

\* the MATCH expressions the loop hands to the index, in order
IssuedQueries(variants) ==
  SelectSeq([i \in 1..Len(variants) |-> SafeQuery(variants[i])], LAMBDA sq : sq # <<>>)

----------------------------------------------------------------------------
(* The vector path *)

\* cosineSimilarity: dot / (sqrt(normA) * sqrt(normB)) over the indices of a,
\* kept as its three sums; NaN when b is shorter than a (undefined operand)
\* or a norm is zero (0 / 0)
CosineSimilarity(a, b) ==
  IF Len(b) < Len(a) THEN [nan |-> TRUE, dot |-> 0, na |-> 0, nb |-> 0]
  ELSE LET dot == SumSeq([i \in 1..Len(a) |-> a[i] * b[i]])
           na == SumSeq([i \in 1..Len(a) |-> a[i] * a[i]])
           nb == SumSeq([i \in 1..Len(a) |-> b[i] * b[i]])
       IN  [nan |-> na = 0 \/ nb = 0, dot |-> dot, na |-> na, nb |-> nb]

\* similarity > 0.5   (false for NaN)
AboveFloor(s) == ~s.nan /\ s.dot > 0 /\ 4 * s.dot * s.dot > s.na * s.nb

\* x > y for two similarities above the floor
SimGreater(x, y) == x.dot * x.dot * y.na * y.nb > y.dot * y.dot * x.na * x.nb

FactById(id) ==
  IF \E i \in 1..Len(facts) : facts[i].id = id
  THEN Some(facts[CHOOSE i \in 1..Len(facts) : facts[i].id = id])
  ELSE None

\* an INSERT into a fact_embeddings without its primary key
Mut_InsertEmbeddingNoKey(row) ==
  IF IsNull(FactById(row.fact_id))
  THEN [ok |-> FALSE, rows |-> embeddings]
  ELSE [ok |-> TRUE, rows |-> Append(embeddings, row)]

\* INSERT INTO fact_embeddings (fact_id, embedding, model) under the table's
\* constraints as declared: fact_id PRIMARY KEY REFERENCES facts(id); a
\* violated constraint makes run() throw and leaves the table as it was
InsertEmbedding(row) ==
  IF \/ \E i \in 1..Len(embeddings) : embeddings[i].fact_id = row.fact_id
     \/ IsNull(FactById(row.fact_id))
  THEN [ok |-> FALSE, rows |-> embeddings]
  ELSE [ok |-> TRUE, rows |-> Append(embeddings, row)]

\* SELECT fe.fact_id, fe.embedding FROM fact_embeddings fe JOIN facts f ...
\*   WHERE (f.expires_at IS NULL OR f.expires_at > ?) [AND f.persona = ?]
EmbeddingRows(nowSec, persona) ==
  SelectSeq(embeddings,
            LAMBDA e : /\ ~IsNull(FactById(e.fact_id))
                       /\ Unexpired(Val(FactById(e.fact_id)), nowSec)
                       /\ PersonaOk(Val(FactById(e.fact_id)), persona))

\* the scan: every row above the floor whose fact still exists
RECURSIVE ScanVectors(_, _, _)
ScanVectors(m, rows, q) ==
  IF rows = <<>> THEN m
  ELSE LET e == Head(rows)
           sim == CosineSimilarity(q, e.embedding)
           fact == FactById(e.fact_id)
           m2 == IF AboveFloor(sim) /\ ~IsNull(fact)
                 THEN MapSet(m, [id |-> e.fact_id, entry |-> RowToEntry(Val(fact)),
                                 similarity |-> sim])
                 ELSE m
       IN  ScanVectors(m2, Tail(rows), q)

\* if (queryEmbedding) { ... }: null and undefined are falsy, every array is truthy
VectorResults(qemb, nowSec, persona) ==
  IF IsNull(qemb) THEN <<>>
  ELSE ScanVectors(<<>>, EmbeddingRows(nowSec, persona), Val(qemb))

----------------------------------------------------------------------------
(* Query expansion (hydeExpand) *)

HydeKinds == {"timeout", "http_error", "bad_json", "bad_type", "ok"}

\* a hydeExpand that measures the response before trimming it
Mut_HydeExpandNoTrim(query, outcome) ==
  IF outcome.kind # "ok" \/ IsNull(outcome.response) THEN <<query>>
  ELSE IF Len(Val(outcome.response)) > 10
       THEN <<query, Trim(Val(outcome.response))>>
       ELSE <<query>>

\* a hydeExpand whose failure paths return no variant at all
Mut_HydeExpandEmpty(query, outcome) ==
  IF outcome.kind # "ok" THEN <<>>
  ELSE IF IsNull(outcome.response) THEN <<query>>
  ELSE LET expanded == Trim(Val(outcome.response))
       IN  IF expanded # <<>> /\ Len(expanded) > 10
           THEN <<query, expanded>>
           ELSE <<query>>

\* hydeExpand: [query] when fetch or response.json() throws, when the status
\* is not ok, when data.response is missing or is not a string (trim throws),
\* and when the trimmed response has at most 10 characters
HydeExpand(query, outcome) ==
  IF outcome.kind # "ok" \/ IsNull(outcome.response) THEN <<query>>
  ELSE LET expanded == Trim(Val(outcome.response))
       IN  IF expanded # <<>> /\ Len(expanded) > 10
           THEN <<query, expanded>>
           ELSE <<query>>

----------------------------------------------------------------------------
(* Rank fusion and scoring (hybridSearch) *)

K == 60

Truthy(x) == ~IsNull(x) /\ Val(x) # 0

\* "Add FTS scores": the lexical candidates sorted by rank, numbered from 1
RECURSIVE AddFts(_, _, _)
AddFts(scores, sorted, pos) ==
  IF sorted = <<>> THEN scores
  ELSE LET r == Head(sorted)
           s2 == IF MapHas(scores, r.id)
                 THEN MapSet(scores, [MapGet(scores, r.id) EXCEPT
                                        !.ftsRank = Some(pos),
                                        !.sources = Append(@, r.source)])
                 ELSE MapSet(scores, [id |-> r.id, entry |-> r.entry, ftsRank |-> Some(pos),
                                      vecScore |-> None, sources |-> <<r.source>>])
       IN  AddFts(s2, Tail(sorted), pos + 1)

\* "Add vector scores": the vector candidates sorted by similarity descending
RECURSIVE AddVec(_, _, _)
AddVec(scores, sorted, pos) ==
  IF sorted = <<>> THEN scores
  ELSE LET r == Head(sorted)
           s2 == IF MapHas(scores, r.id)
                 THEN MapSet(scores, [MapGet(scores, r.id) EXCEPT
                                        !.vecScore = Some(pos),
                                        !.sources = Append(@, <<"vector">>)])
                 ELSE MapSet(scores, [id |-> r.id, entry |-> r.entry, ftsRank |-> None,
                                      vecScore |-> Some(pos), sources |-> <<<<"vector">>>>])
       IN  AddVec(s2, Tail(sorted), pos + 1)

Fuse(ftsResults, vectorResults) ==
  AddVec(AddFts(<<>>, StableSort(ftsResults, LAMBDA x, y : x.rank < y.rank), 1),
         StableSort(vectorResults, LAMBDA x, y : SimGreater(x.similarity, y.similarity)),
         1)

\* a fusion that counts ranks from 0
Mut_RrfScoreZeroBased(c) ==
  RAdd(IF Truthy(c.ftsRank) THEN Rat(1, K + Val(c.ftsRank) - 1) ELSE RZero,
       IF Truthy(c.vecScore) THEN Rat(1, K + Val(c.vecScore) - 1) ELSE RZero)

\* rrfScore of one fused candidate
RrfScore(c) ==
  RAdd(IF Truthy(c.ftsRank) THEN Rat(1, K + Val(c.ftsRank)) ELSE RZero,
       IF Truthy(c.vecScore) THEN Rat(1, K + Val(c.vecScore)) ELSE RZero)

\* a freshness without the clamp
Mut_FreshnessNoClamp(entry, nowSec) ==
  IF Truthy(entry.expiresAt)
  THEN Rat(Val(entry.expiresAt) - nowSec, 14 * 24 * 3600)
  ELSE ROne

\* freshness: 1 unless expiresAt is truthy, then
\* max(0, min(1, (expiresAt - nowSec) / (14 * 24 * 3600)))
Freshness(entry, nowSec) ==
  IF Truthy(entry.expiresAt)
  THEN RMax(RZero, RMin(ROne, Rat(Val(entry.expiresAt) - nowSec, 14 * 24 * 3600)))
  ELSE ROne

\* composite = rrfScore * 0.7 + freshness * 0.2 + confidence * 0.1
Composite(c, nowSec) ==
  RAdd(RAdd(RMul(RrfScore(c), Rat(7, 10)), RMul(Freshness(c.entry, nowSec), Rat(2, 10))),
       RMul(c.entry.confidence, Rat(1, 10)))

\* a hybridSearch that cuts to the limit before it sorts
Mut_FinalResultsCutFirst(scores, nowSec, limit) ==
  LET all == [i \in 1..Len(scores) |->
                [entry |-> scores[i].entry, score |-> Composite(scores[i], nowSec),
                 sources |-> scores[i].sources]]
  IN  StableSort(Take(all, limit), LAMBDA x, y : RLess(y.score, x.score))

\* finalResults, sorted by score descending, cut to the limit
FinalResults(scores, nowSec, limit) ==
  LET all == [i \in 1..Len(scores) |->
                [entry |-> scores[i].entry, score |-> Composite(scores[i], nowSec),
                 sources |-> scores[i].sources]]
  IN  Take(StableSort(all, LAMBDA x, y : RLess(y.score, x.score)), limit)

----------------------------------------------------------------------------
(* Lexical-only scoring (ftsSearch) *)

MinRank(rows) == CHOOSE r \in {rows[i].rank : i \in 1..Len(rows)} :
                   \A j \in 1..Len(rows) : r <= rows[j].rank
MaxRank(rows) == CHOOSE r \in {rows[i].rank : i \in 1..Len(rows)} :
                   \A j \in 1..Len(rows) : r >= rows[j].rank

\* const range = maxRank - minRank || 1
RankRange(rows) ==
  LET d == MaxRank(rows) - MinRank(rows) IN IF d = 0 THEN 1 ELSE d

\* score: 1 - (rank - minRank) / range || 0.8
\* (the || applies to the whole difference: a score of 0 becomes 0.8)
FtsScore(rank, rows) ==
  LET v == RSub(ROne, Rat(rank - MinRank(rows), RankRange(rows)))
  IN  IF v = RZero THEN Rat(8, 10) ELSE v

FtsResults(rows) ==
  [i \in 1..Len(rows) |->
     [entry |-> RowToEntry(rows[i].row), score |-> FtsScore(rows[i].rank, rows)]]

----------------------------------------------------------------------------
(* Inputs *)

TickSteps == {4 * 3600, 24 * 3600}
Limits == {1, 2}
Personas == {None, Some("p1")}

Q_ab == W_ab
Q_abcd == W_ab \o Sp \o W_cd
Q_quoted == <<"'", "a", "'", " ", "b">>
Queries == {Q_ab, Q_abcd, Q_quoted}
\* quotes inside a word, leading and doubled blanks, a one-letter word
Q_spaced == <<" ", "a", "\"", "b", " ", " ", "c", " ", "'", "c", "d", "'">>
LexQueries == Queries \cup {Q_spaced}

\* provider responses to the expansion request
R_long == W_cd \o Sp \o W_ef \o Sp \o W_cd \o Sp \o W_ef
R_padded == Sp \o W_cd \o Sp \o W_ef \o Sp \o W_cd \o Sp \o Sp
R_ten == W_ab \o Sp \o W_cd \o Sp \o W_ef \o Sp \o <<"x">>
R_trimmed == Sp \o Sp \o W_ab \o Sp \o W_ab \o Sp \o W_ab \o Sp \o W_cd \o Sp
HydeResponses == {None, Some(<<>>), Some(R_long), Some(R_padded), Some(R_ten), Some(R_trimmed)}
HydeOutcomes ==
  {[kind |-> k, response |-> None] : k \in HydeKinds \ {"ok"}}
    \cup {[kind |-> "ok", response |-> r] : r \in HydeResponses}
NoOutcome == [kind |-> "none", response |-> None]
\* an expansion with quoted words, and one made of one-letter words only
R_quoted == <<"\"", "c", "d", "\"", " ", "e", "f", " ", "x", " ", "a", "b">>
R_singles == <<"a", " ", "b", " ", "c", " ", "d", " ", "e", " ", "f">>
LexHydeOutcomes ==
  {[kind |-> "ok", response |-> Some(R_quoted)], [kind |-> "ok", response |-> Some(R_singles)]}

----------------------------------------------------------------------------
(* State *)

NoEntry == CHOOSE e \in Entries : TRUE

StIdle ==
  [pc |-> "idle", id |-> 0, entry |-> NoEntry, now |-> [sec |-> 0, ms |-> 0],
   outcome |-> "none", ret |-> None, thrown |-> FALSE]

HsIdle ==
  [pc |-> "idle", query |-> <<>>, persona |-> None, limit |-> 0, useHyde |-> FALSE,
   nowSec |-> 0, hydeOutcome |-> NoOutcome, variants |-> <<>>, queries |-> <<>>,
   ftsResults |-> <<>>,
   embOutcome |-> "none", queryEmbedding |-> None, vectorResults |-> <<>>,
   scores |-> <<>>, scoreNow |-> 0, results |-> <<>>, events |-> <<>>]

FsIdle ==
  [pc |-> "idle", query |-> <<>>, persona |-> None, limit |-> 0, nowSec |-> 0,
   queries |-> <<>>, rows |-> <<>>, results |-> <<>>]

AllIdle == st.pc = "idle" /\ hs.pc = "idle" /\ fs.pc = "idle"

\* rows: the facts the pass selected; idx: the one being embedded; before:
\* fact_embeddings as the pass found it; prior: how the previous pass ended
BfIdle ==
  [pc |-> "idle", batchSize |-> 0, rows |-> <<>>, idx |-> 0, processed |-> 0,
   failed |-> 0, before |-> <<>>, thrown |-> FALSE, prior |-> "none"]

\* the last maintenance pass: op (prev: the pass before it), the instant it read, the ids it was given,
\* the facts it deleted and those of them that had an embedding
PrIdle ==
  [runs |-> 0, op |-> "none", prev |-> "none", at |-> 0, ids |-> {}, deleted |-> {},
   cascaded |-> {}]

\* before: the two tables as the invocation found them
CliIdle ==
  [pc |-> "idle", command |-> "none", args |-> <<>>, exit |-> 0, stderr |-> "none",
   before |-> [facts |-> <<>>, embeddings |-> <<>>]]

Procs == {1, 2}
CwIdle ==
  [lock |-> 0,
   proc |-> [p \in Procs |-> [pc |-> "idle", id |-> 0, entry |-> NoEntry, thrown |-> FALSE]]]

Init ==
  /\ now = 0
  /\ facts = <<>>
  /\ embeddings = <<>>
  /\ nextId = 1
  /\ ticks = 0
  /\ st = StIdle
  /\ hs = HsIdle
  /\ fs = FsIdle
  /\ bf = BfIdle
  /\ cli = CliIdle
  /\ cw = CwIdle
  /\ net = "up"
  /\ pr = PrIdle

----------------------------------------------------------------------------
(* Time *)

\* the clock advances, between invocations or while hybridSearch awaits a
\* provider
Tick(d) ==
  /\ ticks < MaxTicks
  /\ st.pc = "idle" /\ fs.pc = "idle" /\ hs.pc \in {"idle", "hyde", "embed"}
  /\ now' = now + d
  /\ ticks' = ticks + 1
  /\ UNCHANGED <<facts, embeddings, nextId, st, hs, fs, bf, cli, cw, net, pr>>

----------------------------------------------------------------------------
(* storeWithEmbedding *)

\* up to the await of getEmbedding: the fact row is inserted
StoreBegin(e) ==
  /\ facts' = Append(facts, FactRow(nextId, e, DateNow))
  /\ nextId' = nextId + 1
  /\ st' = [StIdle EXCEPT !.pc = "embedding", !.id = nextId, !.entry = e, !.now = DateNow]

StoreInsert(e) ==
  /\ AllIdle
  /\ Len(facts) < MaxFacts
  /\ StoreBegin(e)
  /\ UNCHANGED <<now, embeddings, ticks, hs, fs, bf, cli, cw, net, pr>>

\* the entry storeWithEmbedding returns
StoreReturn(id) ==
  LET row == FactRow(id, st.entry, st.now)
  IN  [st.entry EXCEPT !.decayClass = st.entry.decayClass]
        @@ [id |-> id, createdAt |-> row.created_at, expiresAt |-> row.expires_at,
            lastAccessed |-> row.last_accessed]

\* getEmbedding has answered: if (embedding) INSERT INTO fact_embeddings; a
\* throwing INSERT rejects the promise, so nothing is returned
StoreEmbedded(outcome) ==
  /\ st.pc = "embedding"
  /\ LET embedding == GetEmbedding(TextOf(st.entry), outcome)
         ins == IF IsNull(embedding) THEN [ok |-> TRUE, rows |-> embeddings]
                ELSE InsertEmbedding([fact_id |-> st.id, embedding |-> Val(embedding)])
     IN  /\ embeddings' = ins.rows
         /\ st' = [st EXCEPT !.pc = "done", !.outcome = outcome, !.thrown = ~ins.ok,
                              !.ret = IF ins.ok THEN Some(StoreReturn(st.id)) ELSE None]
  /\ UNCHANGED <<now, facts, nextId, ticks, hs, fs, bf, cli, cw, net, pr>>

StoreExit ==
  /\ st.pc = "done"
  /\ st' = StIdle
  /\ UNCHANGED <<now, facts, embeddings, nextId, ticks, hs, fs, bf, cli, cw, net, pr>>

----------------------------------------------------------------------------
(* hybridSearch *)

\* the lexical loop over the variants, then the call of getEmbedding(query);
\* events: the operations in the order they are issued and completed
HybridLexical(h, variants) ==
  [h EXCEPT !.pc = "embed", !.variants = variants, !.queries = IssuedQueries(variants),
            !.ftsResults = CollectFts(<<>>, variants, h.nowSec, h.persona, h.limit),
            !.events = @ \o <<"fts_start", "fts_end", "emb_start">>]

\* entry: nowSec is read, then either hydeExpand is awaited or the lexical
\* loop runs at once on [query]
HybridBegin(q, persona, limit, useHyde) ==
  LET h == [HsIdle EXCEPT !.query = q, !.persona = persona, !.limit = limit,
                          !.useHyde = useHyde, !.nowSec = FloorSec(DateNow)]
  IN  IF useHyde THEN [h EXCEPT !.pc = "hyde", !.events = <<"hyde_start">>]
      ELSE HybridLexical(h, <<q>>)

HybridStart(q, persona, limit, useHyde) ==
  /\ AllIdle
  /\ hs' = HybridBegin(q, persona, limit, useHyde)
  /\ UNCHANGED <<now, facts, embeddings, nextId, ticks, st, fs, bf, cli, cw, net, pr>>

\* hydeExpand has returned
HybridExpanded(outcome) ==
  /\ hs.pc = "hyde"
  /\ hs' = HybridLexical([hs EXCEPT !.hydeOutcome = outcome,
                                    !.events = Append(@, "hyde_end")],
                         HydeExpand(hs.query, outcome))
  /\ UNCHANGED <<now, facts, embeddings, nextId, ticks, st, fs, bf, cli, cw, net, pr>>

\* getEmbedding(query) has returned: vector scan, fusion, scoring, sort, cut
HybridEmbedded(outcome) ==
  /\ hs.pc = "embed"
  /\ LET qemb == GetEmbedding(hs.query, outcome)
         vec == VectorResults(qemb, hs.nowSec, hs.persona)
         fused == Fuse(hs.ftsResults, vec)
         t == FloorSec(DateNow)
     IN  hs' = [hs EXCEPT !.pc = "done", !.embOutcome = outcome, !.queryEmbedding = qemb,
                          !.vectorResults = vec, !.scores = fused, !.scoreNow = t,
                          !.results = FinalResults(fused, t, hs.limit),
                          !.events = Append(@, "emb_end")]
  /\ UNCHANGED <<now, facts, embeddings, nextId, ticks, st, fs, bf, cli, cw, net, pr>>

HybridExit ==
  /\ hs.pc = "done"
  /\ hs' = HsIdle
  /\ UNCHANGED <<now, facts, embeddings, nextId, ticks, st, fs, bf, cli, cw, net, pr>>

----------------------------------------------------------------------------
(* ftsSearch *)

FtsRun(q, persona, limit) ==
  LET nowSec == FloorSec(DateNow)
      safeQuery == SafeQuery(q)
      rows == IF safeQuery = <<>> THEN <<>>
              ELSE FtsQuery(MatchPhrases(safeQuery), nowSec, persona, limit)
  IN  [pc |-> "done", query |-> q, persona |-> persona, limit |-> limit,
       nowSec |-> nowSec, queries |-> IssuedQueries(<<q>>), rows |-> rows,
       results |-> FtsResults(rows)]

\* a search that renews what it returns
Mut_FtsSearchRefreshes(q, persona, limit) ==
  /\ AllIdle
  /\ fs' = FtsRun(q, persona, limit)
  /\ LET run == FtsRun(q, persona, limit)
         hit == {run.rows[i].row.id : i \in 1..Len(run.rows)}
     IN  facts' = [i \in 1..Len(facts) |->
                     IF facts[i].id \in hit
                     THEN [facts[i] EXCEPT !.last_accessed = FloorSec(DateNow)]
                     ELSE facts[i]]
  /\ UNCHANGED <<now, embeddings, nextId, ticks, st, hs, bf, cli, cw, net, pr>>

FtsSearch(q, persona, limit) ==
  /\ AllIdle
  /\ fs' = FtsRun(q, persona, limit)
  /\ UNCHANGED <<now, facts, embeddings, nextId, ticks, st, hs, bf, cli, cw, net, pr>>

FtsExit ==
  /\ fs.pc = "done"
  /\ fs' = FsIdle
  /\ UNCHANGED <<now, facts, embeddings, nextId, ticks, st, hs, bf, cli, cw, net, pr>>

----------------------------------------------------------------------------
(* backfillEmbeddings *)

\* LIMIT n: a negative n is no limit
SqlLimit(rows, n) == IF n < 0 THEN rows ELSE Take(rows, n)

\* a selection that forgets WHERE fe.fact_id IS NULL
Mut_LacksEmbeddingAll(row) == TRUE

\* LEFT JOIN fact_embeddings fe ON f.id = fe.fact_id WHERE fe.fact_id IS NULL
LacksEmbedding(row) == ~\E i \in 1..Len(embeddings) : embeddings[i].fact_id = row.id

\* SELECT f.* FROM facts f LEFT JOIN ... WHERE fe.fact_id IS NULL LIMIT ?
BackfillSelect(batchSize) == SqlLimit(SelectSeq(facts, LacksEmbedding), batchSize)

\* entry: the batch is selected once, then the loop awaits getEmbedding for
\* its first row
BackfillBegin(batchSize) ==
  LET rows == BackfillSelect(batchSize)
  IN  [BfIdle EXCEPT !.pc = IF rows = <<>> THEN "done" ELSE "embedding",
                     !.batchSize = batchSize, !.rows = rows, !.idx = 1,
                     !.before = embeddings, !.prior = bf.prior]

BackfillStart(batchSize) ==
  /\ bf.pc = "idle"
  /\ bf' = BackfillBegin(batchSize)
  /\ UNCHANGED <<now, facts, embeddings, nextId, ticks, st, hs, fs, cli, cw, net, pr>>

\* getEmbedding(row.text) has answered for the current row: INSERT and count
\* it as processed, or count it as failed; a throwing INSERT ends the loop
BackfillEmbedded(outcome) ==
  /\ bf.pc = "embedding"
  /\ LET row == bf.rows[bf.idx]
         embedding == GetEmbedding(row.text, outcome)
         ins == IF IsNull(embedding) THEN [ok |-> TRUE, rows |-> embeddings]
                ELSE InsertEmbedding([fact_id |-> row.id, embedding |-> Val(embedding)])
     IN  /\ embeddings' = ins.rows
         /\ bf' = IF ~ins.ok THEN [bf EXCEPT !.pc = "done", !.thrown = TRUE]
                  ELSE [bf EXCEPT !.processed = IF IsNull(embedding) THEN @ ELSE @ + 1,
                                  !.failed = IF IsNull(embedding) THEN @ + 1 ELSE @,
                                  !.idx = @ + 1,
                                  !.pc = IF bf.idx = Len(bf.rows) THEN "done" ELSE "embedding"]
  /\ UNCHANGED <<now, facts, nextId, ticks, st, hs, fs, cli, cw, net, pr>>

\* the process is stopped while it awaits the provider
BackfillInterrupt ==
  /\ bf.pc = "embedding"
  /\ bf' = [bf EXCEPT !.pc = "killed"]
  /\ UNCHANGED <<now, facts, embeddings, nextId, ticks, st, hs, fs, cli, cw, net, pr>>

BackfillExit ==
  /\ bf.pc \in {"done", "killed"}
  /\ bf' = [BfIdle EXCEPT !.prior = bf.pc]
  /\ UNCHANGED <<now, facts, embeddings, nextId, ticks, st, hs, fs, cli, cw, net, pr>>

----------------------------------------------------------------------------
(* The decay engine: prune, refreshAccess, decayConfidence, consolidate *)

\* a prune that also takes the facts expiring at this very second
Mut_ExpiredAtOrBefore(row, nowSec) == ~IsNull(row.expires_at) /\ Val(row.expires_at) <= nowSec

\* non-null expires_at < now
Expired(row, nowSec) == ~IsNull(row.expires_at) /\ Val(row.expires_at) < nowSec

\* the record of a pass that deleted the facts in gone
Pass(op, nowSec, ids, gone) ==
  [runs |-> pr.runs + 1, op |-> op, prev |-> pr.op, at |-> nowSec, ids |-> ids,
   deleted |-> gone,
   cascaded |-> {embeddings[i].fact_id : i \in 1..Len(embeddings)} \cap gone]

\* DELETE FROM facts WHERE id IN gone; the embeddings of a deleted fact go
\* with it (fact_id REFERENCES facts(id) ON DELETE CASCADE)
DeleteFacts(rows, gone) ==
  /\ facts' = SelectSeq(rows, LAMBDA r : r.id \notin gone)
  /\ embeddings' = SelectSeq(embeddings, LAMBDA e : e.fact_id \notin gone)

\* prune(): delete all facts with non-null expiresAt < now
Prune ==
  /\ pr.runs < MaxPrunes
  /\ LET nowSec == FloorSec(DateNow)
         gone == {facts[i].id : i \in {i \in 1..Len(facts) : Expired(facts[i], nowSec)}}
     IN  /\ DeleteFacts(facts, gone)
         /\ pr' = Pass("prune", nowSec, {}, gone)
  /\ UNCHANGED <<now, nextId, ticks, st, hs, fs, bf, cli, cw, net>>

\* a refresh that renews every tier that has a TTL
Mut_RenewedAllTiers(row) == ~IsNull(TtlOf(row.decay_class))

\* the tiers access renews
Renewed(row) == row.decay_class \in {"stable", "active"}

\* refreshAccess(ids): lastAccessed = now and expiresAt = now + TTL(tier) for
\* the stable and active facts among ids
RefreshRow(row, nowSec) ==
  [row EXCEPT !.last_accessed = nowSec,
              !.expires_at = Some(nowSec + Val(TtlOf(row.decay_class)))]

RefreshAccess(ids) ==
  /\ pr.runs < MaxPrunes
  /\ ids # {}
  /\ LET nowSec == FloorSec(DateNow)
     IN  /\ facts' = [i \in 1..Len(facts) |->
                        IF facts[i].id \in ids /\ Renewed(facts[i])
                        THEN RefreshRow(facts[i], nowSec) ELSE facts[i]]
         /\ pr' = Pass("refresh", nowSec, ids, {})
  /\ UNCHANGED <<now, embeddings, nextId, ticks, st, hs, fs, bf, cli, cw, net>>

\* (now - lastAccessed) > 0.75 * (expiresAt - lastAccessed), for an unexpired
\* fact that has an expiry
Stale(row, nowSec) ==
  /\ ~IsNull(row.expires_at)
  /\ Unexpired(row, nowSec)
  /\ 4 * (nowSec - row.last_accessed) > 3 * (Val(row.expires_at) - row.last_accessed)

\* a floor that spares the permanent facts
Mut_BelowFloorTiered(row) ==
  RLess(row.confidence, Rat(1, 10)) /\ row.decay_class # "permanent"

\* confidence < 0.1
BelowFloor(row) == RLess(row.confidence, Rat(1, 10))

\* decayConfidence(): halve the confidence of the stale facts, then delete
\* every fact with confidence below 0.1
DecayConfidence ==
  /\ pr.runs < MaxPrunes
  /\ LET nowSec == FloorSec(DateNow)
         halved == [i \in 1..Len(facts) |->
                      IF Stale(facts[i], nowSec)
                      THEN [facts[i] EXCEPT !.confidence = RMul(@, Rat(1, 2))]
                      ELSE facts[i]]
         gone == {halved[i].id : i \in {i \in 1..Len(halved) : BelowFloor(halved[i])}}
     IN  /\ DeleteFacts(halved, gone)
         /\ pr' = Pass("decay", nowSec, {}, gone)
  /\ UNCHANGED <<now, nextId, ticks, st, hs, fs, bf, cli, cw, net>>

\* the facts of one (persona, entity, key)
SameKey(a, b) == a.persona = b.persona /\ a.entity = b.entity /\ a.key = b.key

\* a consolidation that keeps the fact stored first
Mut_KeptFirst(row, rows) ==
  ~\E i \in 1..Len(rows) : SameKey(rows[i], row) /\ rows[i].id < row.id

\* the entry a group keeps: the one of highest confidence, the one stored
\* first among equals
Kept(row, rows) ==
  ~\E i \in 1..Len(rows) :
     /\ SameKey(rows[i], row)
     /\ \/ RLess(row.confidence, rows[i].confidence)
        \/ rows[i].confidence = row.confidence /\ rows[i].id < row.id

\* consolidate(): of the unexpired facts of one (persona, entity, key) keep
\* the highest-confidence one and delete the rest
Consolidate ==
  /\ pr.runs < MaxPrunes
  /\ LET nowSec == FloorSec(DateNow)
         live == SelectSeq(facts, LAMBDA r : Unexpired(r, nowSec))
         gone == {live[i].id : i \in {i \in 1..Len(live) : ~Kept(live[i], live)}}
     IN  /\ DeleteFacts(facts, gone)
         /\ pr' = Pass("consolidate", nowSec, {}, gone)
  /\ UNCHANGED <<now, nextId, ticks, st, hs, fs, bf, cli, cw, net>>

----------------------------------------------------------------------------
(* storeWithEmbedding from independent processes on one database file *)

\* the database admits one writer at a time; lock is the process whose write
\* statement is in progress, 0 when none is. initDb opens the connection and
\* sets journal_mode only: the busy timeout keeps its default of 0, so a
\* statement that finds the write lock taken throws SQLITE_BUSY at once.
ProcIdle == CwIdle.proc[1]

\* db.prepare(INSERT INTO facts ...).run(...) starts: the write lock is taken,
\* or the statement throws and the promise rejects
ConcInsert(p, e) ==
  /\ cw.proc[p].pc = "idle"
  /\ nextId <= MaxFacts
  /\ nextId' = nextId + 1
  /\ IF cw.lock = 0
     THEN cw' = [lock |-> p,
                 proc |-> [cw.proc EXCEPT ![p] = [pc |-> "writing", id |-> nextId,
                                                  entry |-> e, thrown |-> FALSE]]]
     ELSE cw' = [cw EXCEPT !.proc[p] = [pc |-> "done", id |-> nextId, entry |-> e,
                                        thrown |-> TRUE]]
  /\ UNCHANGED <<now, facts, embeddings, ticks, st, hs, fs, bf, cli, net, pr>>

\* the INSERT commits: the row is in the table and the lock is released; the
\* process goes on to await getEmbedding
ConcCommit(p) ==
  /\ cw.proc[p].pc = "writing"
  /\ facts' = Append(facts, FactRow(cw.proc[p].id, cw.proc[p].entry, DateNow))
  /\ cw' = [lock |-> 0, proc |-> [cw.proc EXCEPT ![p].pc = "embedding"]]
  /\ UNCHANGED <<now, embeddings, nextId, ticks, st, hs, fs, bf, cli, net, pr>>

\* getEmbedding has answered: INSERT INTO fact_embeddings starts, if there is
\* an embedding to insert
ConcEmbedded(p, outcome) ==
  /\ cw.proc[p].pc = "embedding"
  /\ LET embedding == GetEmbedding(TextOf(cw.proc[p].entry), outcome)
     IN  IF IsNull(embedding) THEN cw' = [cw EXCEPT !.proc[p].pc = "done"]
         ELSE IF cw.lock = 0
              THEN cw' = [lock |-> p, proc |-> [cw.proc EXCEPT ![p].pc = "writing_embedding"]]
              ELSE cw' = [cw EXCEPT !.proc[p].pc = "done", !.proc[p].thrown = TRUE]
  /\ UNCHANGED <<now, facts, embeddings, nextId, ticks, st, hs, fs, bf, cli, net, pr>>

\* the INSERT into fact_embeddings commits
ConcEmbeddingCommit(p) ==
  /\ cw.proc[p].pc = "writing_embedding"
  /\ LET embedding == GetEmbedding(TextOf(cw.proc[p].entry), "ok")
         ins == InsertEmbedding([fact_id |-> cw.proc[p].id, embedding |-> Val(embedding)])
     IN  /\ embeddings' = ins.rows
         /\ cw' = [lock |-> 0,
                   proc |-> [cw.proc EXCEPT ![p].pc = "done", ![p].thrown = ~ins.ok]]
  /\ UNCHANGED <<now, facts, nextId, ticks, st, hs, fs, bf, cli, net, pr>>

\* the process ends; the next invocation starts afresh
ConcExit(p) ==
  /\ cw.proc[p].pc = "done"
  /\ cw' = [cw EXCEPT !.proc[p] = ProcIdle]
  /\ UNCHANGED <<now, facts, embeddings, nextId, ticks, st, hs, fs, bf, cli, net, pr>>

----------------------------------------------------------------------------
(* main: the command line *)

\* the names of the flags and the words the command line compares with
N_entity == <<"e", "n", "t", "i", "t", "y">>
N_key == <<"k", "e", "y">>
N_value == <<"v", "a", "l", "u", "e">>
N_text == <<"t", "e", "x", "t">>
N_category == <<"c", "a", "t", "e", "g", "o", "r", "y">>
N_decay == <<"d", "e", "c", "a", "y">>
N_importance == <<"i", "m", "p", "o", "r", "t", "a", "n", "c", "e">>
N_persona == <<"p", "e", "r", "s", "o", "n", "a">>
N_limit == <<"l", "i", "m", "i", "t">>
N_batch == <<"b", "a", "t", "c", "h">>
N_hyde == <<"h", "y", "d", "e">>
N_nohyde == <<"n", "o", "-", "h", "y", "d", "e">>
S_false == <<"f", "a", "l", "s", "e">>
Flag(name) == <<"-", "-">> \o name

\* args[i].startsWith("--")
StartsWithDashes(a) == Len(a) >= 2 /\ a[1] = "-" /\ a[2] = "-"

\* the flag-parsing loop of main, over the arguments after the command:
\* --no-hyde sets hyde to "false"; any other --name takes the next argument,
\* whatever it is, or "" and skips it; the rest is positional
RECURSIVE ParseFrom(_, _, _, _)
ParseFrom(args, i, flags, positional) ==
  IF i > Len(args) THEN [flags |-> flags, positional |-> positional]
  ELSE IF StartsWithDashes(args[i])
       THEN IF args[i] = Flag(N_nohyde)
            THEN ParseFrom(args, i + 1, MapSet(flags, [id |-> N_hyde, val |-> S_false]),
                           positional)
            ELSE ParseFrom(args, i + 2,
                           MapSet(flags, [id |-> SubSeq(args[i], 3, Len(args[i])),
                                          val |-> IF i + 1 <= Len(args) THEN args[i + 1]
                                                  ELSE <<>>]),
                           positional)
       ELSE ParseFrom(args, i + 1, flags, Append(positional, args[i]))
ParseArgs(args) == ParseFrom(args, 1, <<>>, <<>>)

\* flags.name: undefined when the flag was not given
FlagOf(flags, name) == IF MapHas(flags, name) THEN Some(MapGet(flags, name).val) ELSE None
\* a string is truthy unless it is undefined or empty
StrTruthy(x) == ~IsNull(x) /\ Val(x) # <<>>

IsDigit(c) == c \in {"0", "1", "2", "3", "4", "5", "6", "7", "8", "9"}
DigitVal(c) ==
  CASE c = "0" -> 0 [] c = "1" -> 1 [] c = "2" -> 2 [] c = "3" -> 3 [] c = "4" -> 4
    [] c = "5" -> 5 [] c = "6" -> 6 [] c = "7" -> 7 [] c = "8" -> 8 [] c = "9" -> 9

RECURSIVE ReadDigits(_, _, _, _)
ReadDigits(s, i, v, n) ==
  IF i <= Len(s) /\ IsDigit(s[i]) THEN ReadDigits(s, i + 1, v * 10 + DigitVal(s[i]), n + 1)
  ELSE [v |-> v, n |-> n, next |-> i]

RECURSIVE Pow10(_)
Pow10(n) == IF n = 0 THEN 1 ELSE 10 * Pow10(n - 1)

\* parseFloat: blanks, a sign, digits, a fraction; NaN (null here) when no
\* digit is found or the argument is undefined; what follows is ignored
ParseFloat(x) ==
  IF IsNull(x) THEN None
  ELSE LET t == TrimLeft(Val(x))
           signed == t # <<>> /\ t[1] \in {"-", "+"}
           sign == IF t # <<>> /\ t[1] = "-" THEN 0 - 1 ELSE 1
           ip == ReadDigits(t, IF signed THEN 2 ELSE 1, 0, 0)
           dot == ip.next <= Len(t) /\ t[ip.next] = "."
           fp == IF dot THEN ReadDigits(t, ip.next + 1, 0, 0) ELSE [v |-> 0, n |-> 0, next |-> 0]
       IN  IF ip.n = 0 /\ fp.n = 0 THEN None
           ELSE Some(Rat(sign * (ip.v * Pow10(fp.n) + fp.v), Pow10(fp.n)))

\* parseInt: blanks, a sign, digits; NaN (null here) when no digit is found
ParseInt(x) ==
  IF IsNull(x) THEN None
  ELSE LET t == TrimLeft(Val(x))
           signed == t # <<>> /\ t[1] \in {"-", "+"}
           sign == IF t # <<>> /\ t[1] = "-" THEN 0 - 1 ELSE 1
           ip == ReadDigits(t, IF signed THEN 2 ELSE 1, 0, 0)
       IN  IF ip.n = 0 THEN None ELSE Some(sign * ip.v)

\* parseInt(x) || d: NaN and 0 are falsy
IntOr(x, d) == IF IsNull(ParseInt(x)) \/ Val(ParseInt(x)) = 0 THEN d ELSE Val(ParseInt(x))

\* the persona and tier names as the store keeps them
PersonaNamed(chars) ==
  CASE chars = <<"s", "h", "a", "r", "e", "d">> -> "shared"
    [] chars = <<"p", "1">> -> "p1"
    [] OTHER -> "other"
DecayNamed(chars) ==
  CASE chars = <<"p", "e", "r", "m", "a", "n", "e", "n", "t">> -> "permanent"
    [] chars = <<"s", "t", "a", "b", "l", "e">> -> "stable"
    [] chars = <<"a", "c", "t", "i", "v", "e">> -> "active"
    [] chars = <<"s", "e", "s", "s", "i", "o", "n">> -> "session"
    [] chars = <<"c", "h", "e", "c", "k", "p", "o", "i", "n", "t">> -> "checkpoint"
    [] OTHER -> "other"

\* the entry "store" hands to storeWithEmbedding
CliEntry(flags) ==
  LET entity == Val(FlagOf(flags, N_entity))
      key == IF StrTruthy(FlagOf(flags, N_key)) THEN FlagOf(flags, N_key) ELSE None
      value == Val(FlagOf(flags, N_value))
      imp == ParseFloat(FlagOf(flags, N_importance))
  IN  [persona |-> IF StrTruthy(FlagOf(flags, N_persona))
                   THEN PersonaNamed(Val(FlagOf(flags, N_persona))) ELSE "shared",
       entity |-> entity, key |-> key, value |-> value,
       text |-> IF StrTruthy(FlagOf(flags, N_text)) THEN FlagOf(flags, N_text)
                ELSE Some(entity \o Sp \o (IF IsNull(key) THEN <<>> ELSE Val(key))
                            \o <<":", " ">> \o value),
       category |-> IF StrTruthy(FlagOf(flags, N_category)) THEN Val(FlagOf(flags, N_category))
                    ELSE W_fact,
       decayClass |-> IF StrTruthy(FlagOf(flags, N_decay))
                      THEN Some(DecayNamed(Val(FlagOf(flags, N_decay)))) ELSE Some("stable"),
       importance |-> IF IsNull(imp) \/ Val(imp) = RZero THEN ROne ELSE Val(imp),
       confidence |-> ROne]

\* a "store" that asks for the entity only
Mut_StoreArgsMissingEntityOnly(flags) == ~StrTruthy(FlagOf(flags, N_entity))

\* if (!flags.entity || !flags.value)
StoreArgsMissing(flags) ==
  ~StrTruthy(FlagOf(flags, N_entity)) \/ ~StrTruthy(FlagOf(flags, N_value))

\* const query = positional[0]
QueryOf(positional) == IF positional = <<>> THEN None ELSE Some(positional[1])

\* persona: flags.persona, undefined or a name ("" filters nothing)
PersonaOpt(flags) ==
  IF StrTruthy(FlagOf(flags, N_persona)) THEN Some(PersonaNamed(Val(FlagOf(flags, N_persona))))
  ELSE None

CliStart(command, args, exit, stderr) ==
  [pc |-> IF exit = 0 THEN "running" ELSE "exited", command |-> command, args |-> args,
   exit |-> exit, stderr |-> stderr,
   before |-> [facts |-> facts, embeddings |-> embeddings]]

\* entity TEXT NOT NULL, value TEXT NOT NULL: an undefined parameter is bound
\* as NULL and the INSERT throws
NotNullOk(flags) == ~IsNull(FlagOf(flags, N_entity)) /\ ~IsNull(FlagOf(flags, N_value))

CliFree == AllIdle /\ bf.pc = "idle" /\ cli.pc = "idle"

\* case "store"
MainStore(args) ==
  /\ CliFree
  /\ LET flags == ParseArgs(args).flags
     IN  IF StoreArgsMissing(flags)
         THEN /\ cli' = CliStart("store", args, 1, "Error: --entity and --value are required")
              /\ UNCHANGED <<facts, nextId, st>>
         ELSE /\ Len(facts) < MaxFacts
              /\ IF NotNullOk(flags) THEN StoreBegin(CliEntry(flags))
                 ELSE /\ st' = [StIdle EXCEPT !.pc = "done", !.thrown = TRUE]
                      /\ UNCHANGED <<facts, nextId>>
              /\ cli' = CliStart("store", args, 0, "none")
  /\ UNCHANGED <<now, embeddings, ticks, hs, fs, bf, cw, net, pr>>

\* case "search"
MainSearch(args) ==
  /\ CliFree
  /\ LET p == ParseArgs(args)
     IN  IF ~StrTruthy(QueryOf(p.positional))
         THEN /\ cli' = CliStart("search", args, 1, "Error: search query required")
              /\ UNCHANGED fs
         ELSE /\ fs' = FtsRun(Val(QueryOf(p.positional)), PersonaOpt(p.flags),
                              IntOr(FlagOf(p.flags, N_limit), 5))
              /\ cli' = CliStart("search", args, 0, "none")
  /\ UNCHANGED <<now, facts, embeddings, nextId, ticks, st, hs, bf, cw, net, pr>>

\* case "hybrid"
MainHybrid(args) ==
  /\ CliFree
  /\ LET p == ParseArgs(args)
     IN  IF ~StrTruthy(QueryOf(p.positional))
         THEN /\ cli' = CliStart("hybrid", args, 1, "Error: search query required")
              /\ UNCHANGED hs
         ELSE /\ hs' = HybridBegin(Val(QueryOf(p.positional)), PersonaOpt(p.flags),
                                   IntOr(FlagOf(p.flags, N_limit), 6),
                                   FlagOf(p.flags, N_hyde) # Some(S_false))
              /\ cli' = CliStart("hybrid", args, 0, "none")
  /\ UNCHANGED <<now, facts, embeddings, nextId, ticks, st, fs, bf, cw, net, pr>>

\* case "index"
MainIndex(args) ==
  /\ CliFree
  /\ bf' = BackfillBegin(IntOr(FlagOf(ParseArgs(args).flags, N_batch), 50))
  /\ cli' = CliStart("index", args, 0, "none")
  /\ UNCHANGED <<now, facts, embeddings, nextId, ticks, st, hs, fs, cw, net, pr>>

\* the command has run to its end: the process exits with 0 (a rejected
\* promise is printed by main().catch(console.error))
MainExit ==
  /\ cli.pc = "running"
  /\ \/ cli.command = "store" /\ st.pc = "done"
     \/ cli.command = "search" /\ fs.pc = "done"
     \/ cli.command = "hybrid" /\ hs.pc = "done"
     \/ cli.command = "index" /\ bf.pc = "done"
  /\ cli' = [cli EXCEPT !.pc = "exited",
                        !.stderr = IF st.thrown \/ bf.thrown THEN "SQLiteError" ELSE "none"]
  /\ st' = IF cli.command = "store" THEN StIdle ELSE st
  /\ fs' = IF cli.command = "search" THEN FsIdle ELSE fs
  /\ hs' = IF cli.command = "hybrid" THEN HsIdle ELSE hs
  /\ bf' = IF cli.command = "index" THEN [BfIdle EXCEPT !.prior = bf.pc] ELSE bf
  /\ UNCHANGED <<now, facts, embeddings, nextId, ticks, cw, net, pr>>

\* the next invocation
MainReset ==
  /\ cli.pc = "exited"
  /\ cli' = CliIdle
  /\ UNCHANGED <<now, facts, embeddings, nextId, ticks, st, hs, fs, bf, cw, net, pr>>

\* command lines
A_ab == W_ab
A_cd == W_cd
A_empty == <<>>
A_5 == <<"5">>
A_zero == <<"0">>
A_half == <<"0", ".", "5">>
A_minus == <<"-", "1">>
A_1 == <<"1">>
A_valid == <<Flag(N_entity), A_ab, Flag(N_value), A_cd>>
StoreArgs ==
  {<<>>, A_valid,
   <<Flag(N_entity), A_ab>>,
   <<Flag(N_value), A_cd, Flag(N_entity)>>,
   <<Flag(N_entity), A_ab, Flag(N_value), A_empty>>,
   <<Flag(N_entity), Flag(N_value), A_cd>>,
   A_valid \o <<Flag(N_importance), A_5>>,
   A_valid \o <<Flag(N_importance), A_zero>>,
   A_valid \o <<Flag(N_importance), A_half>>,
   A_valid \o <<Flag(N_importance), A_minus>>}
SearchArgs ==
  {<<>>, <<A_empty>>, <<A_ab>>, <<Flag(N_limit), A_1>>, <<A_ab, Flag(N_limit), A_1>>}
HybridArgs == {<<>>, <<A_empty>>, <<A_ab>>, <<Flag(N_nohyde)>>, <<A_ab, Flag(N_nohyde)>>}
IndexArgs == {<<>>, <<Flag(N_batch), A_1>>}

----------------------------------------------------------------------------
(* Specifications *)

\* what the providers do in the runs that store and search
SearchStoreOutcomes == {"ok", "timeout"}
SearchHydeOutcomes ==
  {[kind |-> "timeout", response |-> None], [kind |-> "ok", response |-> Some(R_long)]}

\* the store and both searches
Next ==
  \/ \E d \in TickSteps : Tick(d)
  \/ \E e \in SearchEntries : StoreInsert(e)
  \/ \E o \in SearchStoreOutcomes : StoreEmbedded(o)
  \/ StoreExit
  \/ \E q \in Queries, p \in Personas, l \in Limits, u \in BOOLEAN : HybridStart(q, p, l, u)
  \/ \E o \in SearchHydeOutcomes : HybridExpanded(o)
  \/ \E o \in EmbedOutcomes : HybridEmbedded(o)
  \/ HybridExit
  \/ \E q \in Queries, p \in Personas, l \in Limits : FtsSearch(q, p, l)
  \/ FtsExit

Spec == Init /\ [][Next]_vars

\* the store alone, over every entry and every provider outcome
NextStore ==
  \/ \E d \in TickSteps : Tick(d)
  \/ \E e \in Entries : StoreInsert(e)
  \/ \E o \in EmbedOutcomes : StoreEmbedded(o)
  \/ StoreExit

SpecStore == Init /\ [][NextStore]_vars

\* query expansion alone, over every provider outcome
NextHyde ==
  \/ \E q \in Queries, p \in Personas, l \in Limits : HybridStart(q, p, l, TRUE)
  \/ \E o \in HydeOutcomes : HybridExpanded(o)
  \/ \E o \in EmbedOutcomes : HybridEmbedded(o)
  \/ HybridExit

SpecHyde == Init /\ [][NextHyde]_vars

\* the lexical paths over queries and expansions with quotes and short words
NextLexical ==
  \/ \E e \in SearchEntries : StoreInsert(e)
  \/ StoreEmbedded("ok")
  \/ StoreExit
  \/ \E q \in LexQueries, p \in Personas, l \in Limits : FtsSearch(q, p, l)
  \/ FtsExit
  \/ \E q \in LexQueries, p \in Personas, u \in BOOLEAN : HybridStart(q, p, 2, u)
  \/ \E o \in LexHydeOutcomes : HybridExpanded(o)
  \/ HybridEmbedded("timeout")
  \/ HybridExit

SpecLexical == Init /\ [][NextLexical]_vars

\* the vector scan over stored vectors at, above and below the floor
NextVector ==
  \/ \E d \in TickSteps : Tick(d)
  \/ \E e \in VectorEntries : StoreInsert(e)
  \/ \E o \in {"ok", "empty", "timeout"} : StoreEmbedded(o)
  \/ StoreExit
  \/ \E q \in {Q_ab, Q_abcd}, p \in Personas : HybridStart(q, p, 2, FALSE)
  \/ \E o \in {"ok", "empty"} : HybridEmbedded(o)
  \/ HybridExit

SpecVector == Init /\ [][NextVector]_vars

BatchSizes == {1, 2}
BackfillOutcomes == {"ok", "empty", "timeout", "http_error"}

\* store and backfill, one invocation after the other, a backfill possibly
\* stopped half-way
NextBackfill ==
  \/ \E e \in SearchEntries : bf.pc = "idle" /\ StoreInsert(e)
  \/ \E o \in SearchStoreOutcomes : StoreEmbedded(o)
  \/ StoreExit
  \/ \E b \in BatchSizes : AllIdle /\ BackfillStart(b)
  \/ \E o \in BackfillOutcomes : BackfillEmbedded(o)
  \/ BackfillInterrupt
  \/ BackfillExit

SpecBackfill == Init /\ [][NextBackfill]_vars

\* store, backfill and prune from independent processes, interleaved
NextMaint ==
  \/ \E d \in TickSteps : Tick(d)
  \/ \E e \in SearchEntries : StoreInsert(e)
  \/ \E o \in SearchStoreOutcomes : StoreEmbedded(o)
  \/ StoreExit
  \/ \E b \in BatchSizes : BackfillStart(b)
  \/ \E o \in SearchStoreOutcomes : BackfillEmbedded(o)
  \/ BackfillExit
  \/ Prune

SpecMaint == Init /\ [][NextMaint]_vars

\* the commands of the command line, one invocation after the other
NextCli ==
  \/ \E a \in StoreArgs : MainStore(a)
  \/ \E a \in SearchArgs : MainSearch(a)
  \/ \E a \in HybridArgs : MainHybrid(a)
  \/ \E a \in IndexArgs : MainIndex(a)
  \/ \E o \in SearchStoreOutcomes : StoreEmbedded(o)
  \/ \E o \in SearchHydeOutcomes : HybridExpanded(o)
  \/ \E o \in SearchStoreOutcomes : HybridEmbedded(o)
  \/ \E o \in SearchStoreOutcomes : BackfillEmbedded(o)
  \/ MainExit
  \/ MainReset

SpecCli == Init /\ [][NextCli]_vars

\* two store invocations at a time on the same database file
NextConc ==
  \/ \E p \in Procs, e \in SearchEntries : ConcInsert(p, e)
  \/ \E p \in Procs : ConcCommit(p)
  \/ \E p \in Procs, o \in SearchStoreOutcomes : ConcEmbedded(p, o)
  \/ \E p \in Procs : ConcEmbeddingCommit(p)
  \/ \E p \in Procs : ConcExit(p)

SpecConc == Init /\ [][NextConc]_vars

\* facts of one (persona, entity, key) with differing confidence, a faint
\* checkpoint and a faint permanent fact
E_status9 ==
  [persona |-> "shared", entity |-> W_ab, key |-> Some(W_cd), value |-> W_ef,
   text |-> None, category |-> W_fact, decayClass |-> Some("stable"),
   importance |-> Rat(1, 1), confidence |-> Rat(9, 10)]
E_status4 ==
  [persona |-> "shared", entity |-> W_ab, key |-> Some(W_cd), value |-> W_xx,
   text |-> None, category |-> W_fact, decayClass |-> Some("active"),
   importance |-> Rat(1, 1), confidence |-> Rat(4, 10)]
E_faint ==
  [persona |-> "p1", entity |-> W_ef, key |-> None, value |-> W_ef,
   text |-> None, category |-> W_fact, decayClass |-> Some("checkpoint"),
   importance |-> Rat(1, 1), confidence |-> Rat(3, 20)]
E_dim ==
  [persona |-> "p1", entity |-> W_xx, key |-> None, value |-> W_xx,
   text |-> None, category |-> W_fact, decayClass |-> Some("permanent"),
   importance |-> Rat(1, 1), confidence |-> Rat(1, 20)]
DecayEntries == {E_perm, E_session, E_status9, E_status4, E_faint, E_dim}
\* 3.5 hours, 4 hours, 20 hours
DecayTicks == {12600, 14400, 72000}

\* store and the passes of the decay engine, from independent processes
NextDecay ==
  \/ \E d \in DecayTicks : Tick(d)
  \/ \E e \in DecayEntries : StoreInsert(e)
  \/ \E o \in SearchStoreOutcomes : StoreEmbedded(o)
  \/ StoreExit
  \/ Prune
  \/ \E ids \in SUBSET (1..MaxFacts) : RefreshAccess(ids)
  \/ DecayConfidence
  \/ Consolidate

SpecDecay == Init /\ [][NextDecay]_vars

\* the provider refuses every text that holds the word xx, each time
Rejects(text) == Count(FtsTokens(text), W_xx) > 0
StarveEntries == {E_perm, E_stable, E_dim, E_floor}

\* getEmbedding answers the store: a refusal for a refused text, otherwise a
\* vector or nothing
StoreAnswer ==
  /\ st.pc = "embedding"
  /\ \E o \in SearchStoreOutcomes :
       StoreEmbedded(IF Rejects(TextOf(st.entry)) THEN "http_error" ELSE o)

\* getEmbedding answers the backfill for the row at hand
BackfillAnswer ==
  /\ bf.pc = "embedding"
  /\ BackfillEmbedded(IF Rejects(bf.rows[bf.idx].text) THEN "http_error" ELSE "ok")

\* index --batch 1
BackfillOne == AllIdle /\ BackfillStart(1)

\* stores, then backfill passes of batch size 1 again and again
NextStarve ==
  \/ \E e \in StarveEntries : bf.pc = "idle" /\ StoreInsert(e)
  \/ StoreAnswer
  \/ StoreExit
  \/ BackfillOne
  \/ BackfillAnswer
  \/ BackfillExit

\* every pass that can start does start, and every pass runs to its end
SpecStarve ==
  /\ Init /\ [][NextStarve]_vars
  /\ WF_vars(BackfillOne) /\ WF_vars(BackfillAnswer) /\ WF_vars(BackfillExit)
  /\ WF_vars(StoreAnswer) /\ WF_vars(StoreExit)

\* the provider stops answering, for good
NetSilence ==
  /\ net = "up"
  /\ net' = "silent"
  /\ UNCHANGED <<now, facts, embeddings, nextId, ticks, st, hs, fs, bf, cli, cw, pr>>

\* fetch is called without a signal or a timer: while the provider is silent
\* the awaited call settles only if the runtime or the connection gives up,
\* and then fetch throws
FetchGivesUp ==
  /\ net = "silent"
  /\ \/ StoreEmbedded("timeout")
     \/ HybridExpanded([kind |-> "timeout", response |-> None])
     \/ HybridEmbedded("timeout")
     \/ BackfillEmbedded("timeout")

\* the steps each operation takes once the provider has answered
StoreSteps == (net = "up" /\ \E o \in SearchStoreOutcomes : StoreEmbedded(o)) \/ StoreExit
HybridSteps ==
  \/ net = "up" /\ \E o \in SearchHydeOutcomes : HybridExpanded(o)
  \/ net = "up" /\ \E o \in SearchStoreOutcomes : HybridEmbedded(o)
  \/ HybridExit
BackfillSteps ==
  (net = "up" /\ \E o \in SearchStoreOutcomes : BackfillEmbedded(o)) \/ BackfillExit

\* store, hybrid search and backfill, one after the other, against a provider
\* that may fall silent
NextLive ==
  \/ \E e \in SearchEntries : bf.pc = "idle" /\ StoreInsert(e)
  \/ \E u \in BOOLEAN : bf.pc = "idle" /\ HybridStart(Q_ab, None, 2, u)
  \/ \E b \in BatchSizes : AllIdle /\ BackfillStart(b)
  \/ StoreSteps
  \/ HybridSteps
  \/ BackfillSteps
  \/ NetSilence
  \/ FetchGivesUp

\* the event loop runs a continuation once its promise has settled, and a
\* provider that is up answers; nothing obliges a silent call to settle
SpecLive ==
  /\ Init /\ [][NextLive]_vars
  /\ WF_vars(StoreSteps) /\ WF_vars(HybridSteps) /\ WF_vars(BackfillSteps)

----------------------------------------------------------------------------
(* Properties *)

HasEmbedding(id) == \E i \in 1..Len(embeddings) : embeddings[i].fact_id = id
FactExists(id) == ~IsNull(FactById(id))

\* the fixed TTL table of the specification, in seconds
TtlTable(c) ==
  CASE c = "permanent"  -> None
    [] c = "stable"     -> Some(7776000)
    [] c = "active"     -> Some(1209600)
    [] c = "session"    -> Some(86400)
    [] c = "checkpoint" -> Some(14400)

\* C1: every stored fact has expiresAt null exactly when the TTL of its tier
\* is null (permanent), and otherwise expiresAt = lastAccessed + TTL(tier),
\* where lastAccessed is the creation instant in seconds and the tier is the
\* one given, stable when none was given.
Thm_C1_ExpiryFromTier ==
  \A i \in 1..Len(facts) :
    LET r == facts[i]
        ttl == TtlTable(r.decay_class)
    IN  /\ IsNull(r.expires_at) <=> (r.decay_class = "permanent" \/ IsNull(ttl))
        /\ ~IsNull(ttl) => r.expires_at = Some(r.last_accessed + Val(ttl))
        /\ r.last_accessed = r.created_at.sec
        /\ (st.pc # "idle" /\ st.id = r.id) =>
             /\ r.decay_class = (IF IsNull(st.entry.decayClass) THEN "stable"
                                 ELSE Val(st.entry.decayClass))
             /\ r.last_accessed = now

\* a fact stored without a tier sits beside a permanent one
Wit_C1 ==
  /\ st.pc = "done" /\ IsNull(st.entry.decayClass)
  /\ \E i \in 1..Len(facts) :
       facts[i].id = st.id /\ facts[i].expires_at = Some(now + 7776000)
  /\ \E i \in 1..Len(facts) :
       facts[i].decay_class = "permanent" /\ IsNull(facts[i].expires_at)

\* C2: every entry a finished ftsSearch or hybridSearch returns is unexpired
\* at the instant the search read as "now": expiresAt is null or later, both
\* in the entry and in the stored row.
LiveAt(id, expiresAt, nowSec) ==
  /\ IsNull(expiresAt) \/ Val(expiresAt) > nowSec
  /\ \E i \in 1..Len(facts) :
       facts[i].id = id /\ (IsNull(facts[i].expires_at) \/ Val(facts[i].expires_at) > nowSec)

Thm_C2_NoExpiredReturned ==
  /\ hs.pc = "done" =>
       \A i \in 1..Len(hs.results) :
         LiveAt(hs.results[i].entry.id, hs.results[i].entry.expiresAt, hs.nowSec)
  /\ fs.pc = "done" =>
       \A i \in 1..Len(fs.results) :
         LiveAt(fs.results[i].entry.id, fs.results[i].entry.expiresAt, fs.nowSec)

\* a hybrid search returns something while an expired fact that matches the
\* query and has an embedding stays out
Wit_C2 ==
  /\ hs.pc = "done" /\ hs.results # <<>> /\ ~IsNull(hs.queryEmbedding)
  /\ \E i \in 1..Len(facts) :
       /\ ~IsNull(facts[i].expires_at) /\ Val(facts[i].expires_at) <= hs.nowSec
       /\ FtsMatches(facts[i], SafeTokens(hs.query))
       /\ HasEmbedding(facts[i].id)
       /\ \A j \in 1..Len(hs.results) : hs.results[j].entry.id # facts[i].id

\* C3: when the query-embedding call fails (timeout, non-success status,
\* unparsable or field-less body, empty vector) hybridSearch still finishes,
\* the vector path contributes nothing, and the result is the lexical
\* candidates alone, ranked.
EmbeddingCallFailed(o) == o \in EmbedFailures \cup {"empty"}

Thm_C3_LexicalOnlyOnEmbedFailure ==
  (hs.pc = "done" /\ EmbeddingCallFailed(hs.embOutcome)) =>
    /\ hs.vectorResults = <<>>
    /\ MapIds(hs.scores) = MapIds(hs.ftsResults)
    /\ \A i \in 1..Len(hs.scores) :
         /\ IsNull(hs.scores[i].vecScore)
         /\ <<"vector">> \notin Range(hs.scores[i].sources)
    /\ Len(hs.results) = Min2(hs.limit, Len(hs.ftsResults))
    /\ \A i \in 1..Len(hs.results) :
         /\ hs.results[i].entry.id \in MapIds(hs.ftsResults)
         /\ <<"vector">> \notin Range(hs.results[i].sources)

\* the embedding call fails although stored embeddings would have matched
Wit_C3 ==
  /\ hs.pc = "done" /\ hs.embOutcome = "http_error"
  /\ hs.results # <<>>
  /\ VectorResults(Some(EmbedOf(hs.query)), hs.nowSec, hs.persona) # <<>>

Stripped(r) ==
  LET idx == {i \in 1..Len(r) : r[i] # " "}
  IN  IF idx = {} THEN <<>>
      ELSE SubSeq(r, CHOOSE i \in idx : \A j \in idx : i <= j,
                     CHOOSE i \in idx : \A j \in idx : i >= j)

\* C5: hydeExpand returns <<original, expansion>> exactly when the provider
\* answers successfully with a response whose trimmed text is longer than 10
\* characters, and <<original>> in every other case; the original query is
\* always the first variant.
Thm_C5_HydeVariants ==
  (hs.useHyde /\ hs.pc \in {"embed", "done"}) =>
    LET o == hs.hydeOutcome
        good == o.kind = "ok" /\ ~IsNull(o.response) /\ Len(Stripped(Val(o.response))) > 10
    IN  /\ hs.variants = (IF good THEN <<hs.query, Stripped(Val(o.response))>>
                          ELSE <<hs.query>>)
        /\ hs.variants[1] = hs.query

\* a padded response of 11 significant characters is used, trimmed
Wit_C5 ==
  /\ hs.useHyde /\ hs.pc = "embed"
  /\ hs.hydeOutcome = [kind |-> "ok", response |-> Some(R_trimmed)]
  /\ Len(hs.variants) = 2 /\ Len(hs.variants[2]) = 11

\* C6: a hybrid search with expansion enabled and the expansion provider
\* unreachable returns what the search without expansion returns on the same
\* store, query, instants and embedding outcome: same entries, order, scores.
WithoutExpansion ==
  FinalResults(Fuse(CollectFts(<<>>, <<hs.query>>, hs.nowSec, hs.persona, hs.limit),
                    hs.vectorResults),
               hs.scoreNow, hs.limit)

Thm_C6_UnreachableExpansion ==
  (hs.pc = "done" /\ hs.useHyde /\ hs.hydeOutcome.kind = "timeout") =>
    /\ hs.variants = <<hs.query>>
    /\ hs.results = WithoutExpansion

\* the expansion is unreachable in a search that a successful expansion
\* would have changed
Wit_C6 ==
  /\ hs.pc = "done" /\ hs.useHyde /\ hs.hydeOutcome.kind = "timeout"
  /\ hs.results # <<>>
  /\ FinalResults(Fuse(CollectFts(<<>>, <<hs.query, R_long>>, hs.nowSec, hs.persona, hs.limit),
                       hs.vectorResults),
                  hs.scoreNow, hs.limit) # hs.results

\* C7: the score ftsSearch returns is 0.8 for every candidate of a
\* single-candidate or zero-spread result set, and otherwise
\* 1 - (rank - minRank) / (maxRank - minRank).
CE_C7_LexicalNormalization ==
  fs.pc = "done" =>
    \A i \in 1..Len(fs.results) :
      LET lo == MinRank(fs.rows)
          hi == MaxRank(fs.rows)
      IN  fs.results[i].score =
            (IF Len(fs.rows) = 1 \/ hi = lo THEN Rat(8, 10)
             ELSE RSub(ROne, Rat(fs.rows[i].rank - lo, hi - lo)))

\* the freshness of the specification: 1 when expiresAt is null, otherwise
\* (expiresAt - now) / 14 days clamped to [0, 1]
ClaimFreshness(expiresAt, t) ==
  IF IsNull(expiresAt) THEN ROne
  ELSE LET f == Rat(Val(expiresAt) - t, 1209600)
       IN  IF RLess(f, RZero) THEN RZero ELSE IF RLess(ROne, f) THEN ROne ELSE f

\* the positions a candidate may take in its list once the list is sorted
FtsPositions(id) ==
  IF id \notin MapIds(hs.ftsResults) THEN {0}
  ELSE LET me == MapGet(hs.ftsResults, id).rank
           lt == Cardinality({j \in 1..Len(hs.ftsResults) : hs.ftsResults[j].rank < me})
           le == Cardinality({j \in 1..Len(hs.ftsResults) : hs.ftsResults[j].rank <= me})
       IN  (lt + 1)..le

VecPositions(id) ==
  IF id \notin MapIds(hs.vectorResults) THEN {0}
  ELSE LET me == MapGet(hs.vectorResults, id).similarity
           gt == Cardinality({j \in 1..Len(hs.vectorResults) :
                                SimGreater(hs.vectorResults[j].similarity, me)})
           ge == Cardinality({j \in 1..Len(hs.vectorResults) :
                                ~SimGreater(me, hs.vectorResults[j].similarity)})
       IN  (gt + 1)..ge

Reciprocal(pos) == IF pos = 0 THEN RZero ELSE Rat(1, 60 + pos)

ClaimComposite(fp, vp, fresh, conf) ==
  RAdd(RAdd(RMul(Rat(7, 10), RAdd(Reciprocal(fp), Reciprocal(vp))),
            RMul(Rat(2, 10), fresh)),
       RMul(Rat(1, 10), conf))

\* C8: every returned candidate scores 0.7 * rrf + 0.2 * freshness +
\* 0.1 * confidence, rrf summing 1 / (60 + position) over the lists (lexical,
\* vector) the candidate was retrieved through.
Thm_C8_CompositeScore ==
  hs.pc = "done" =>
    \A i \in 1..Len(hs.results) :
      LET r == hs.results[i]
      IN  \E fp \in FtsPositions(r.entry.id), vp \in VecPositions(r.entry.id) :
            r.score = ClaimComposite(fp, vp,
                                     ClaimFreshness(r.entry.expiresAt, hs.scoreNow),
                                     r.entry.confidence)

\* a candidate first in both lists scores 2/61 * 0.7 + freshness * 0.2 +
\* confidence * 0.1, beside a candidate found by one path only
Wit_C8 ==
  /\ hs.pc = "done" /\ Len(hs.results) = 2
  /\ \E i \in 1..2 :
       LET r == hs.results[i]
       IN  /\ FtsPositions(r.entry.id) = {1} /\ VecPositions(r.entry.id) = {1}
           /\ r.score = RAdd(RAdd(RMul(Rat(2, 61), Rat(7, 10)),
                                  RMul(ClaimFreshness(r.entry.expiresAt, hs.scoreNow), Rat(2, 10))),
                             RMul(r.entry.confidence, Rat(1, 10)))
  /\ \E i \in 1..2 :
       FtsPositions(hs.results[i].entry.id) = {0} \/ VecPositions(hs.results[i].entry.id) = {0}

\* the freshness term inside a returned score: what is left of the score
\* after the rank and confidence terms, divided by 0.2
FreshnessTerm(r) ==
  LET c == MapGet(hs.scores, r.entry.id)
      rrf == RAdd(IF IsNull(c.ftsRank) THEN RZero ELSE Rat(1, 60 + Val(c.ftsRank)),
                  IF IsNull(c.vecScore) THEN RZero ELSE Rat(1, 60 + Val(c.vecScore)))
  IN  RMul(RSub(RSub(r.score, RMul(Rat(7, 10), rrf)), RMul(Rat(1, 10), r.entry.confidence)),
           Rat(5, 1))

\* C9: the freshness term of every returned score is 1 when expiresAt is
\* null and otherwise (expiresAt - now) / 14 days clamped to [0, 1], now being
\* the scoring instant; it lies in [0, 1] whatever the tier.
Thm_C9_Freshness ==
  hs.pc = "done" =>
    \A i \in 1..Len(hs.results) :
      LET r == hs.results[i]
          f == FreshnessTerm(r)
      IN  /\ f = ClaimFreshness(r.entry.expiresAt, hs.scoreNow)
          /\ RLeq(RZero, f) /\ RLeq(f, ROne)
          /\ IsNull(r.entry.expiresAt) => f = ROne

\* a partly fresh candidate beside one whose freshness is clamped to 1
Wit_C9 ==
  /\ hs.pc = "done"
  /\ \E i \in 1..Len(hs.results) :
       RLess(RZero, FreshnessTerm(hs.results[i])) /\ RLess(FreshnessTerm(hs.results[i]), ROne)
  /\ \E i \in 1..Len(hs.results) :
       /\ ~IsNull(hs.results[i].entry.expiresAt)
       /\ Val(hs.results[i].entry.expiresAt) - hs.scoreNow > 1209600
       /\ FreshnessTerm(hs.results[i]) = ROne

\* a candidate whose expiry passed while the search awaited the provider
Wit_C9_Zero ==
  /\ hs.pc = "done"
  /\ \E i \in 1..Len(hs.results) :
       /\ ~IsNull(hs.results[i].entry.expiresAt)
       /\ Val(hs.results[i].entry.expiresAt) < hs.scoreNow
       /\ FreshnessTerm(hs.results[i]) = RZero

\* the rows one variant retrieves
VariantRows(v) ==
  IF SafeTokens(v) = <<>> THEN <<>>
  ELSE FtsQuery(SafeTokens(v), hs.nowSec, hs.persona, hs.limit * 2)

\* the ranks a fact got from the variants that retrieved it
RanksIn(rows, id) ==
  {rows[k].rank : k \in {k \in 1..Len(rows) : rows[k].row.id = id}}

VariantRanks(id) ==
  UNION {RanksIn(VariantRows(hs.variants[v]), id) : v \in 1..Len(hs.variants)}

Distinct(ids) == \A i, j \in 1..Len(ids) : ids[i] = ids[j] => i = j

\* C10: each candidate id appears once in the fused list; a fact matched by
\* several variants keeps its lowest rank; ftsRank and vecRank are 1-based
\* positions in the rank-sorted lexical list and the similarity-sorted vector
\* list, each present exactly when the candidate came through that path.
Thm_C10_FusedRanks ==
  hs.pc = "done" =>
    /\ Distinct([i \in 1..Len(hs.scores) |-> hs.scores[i].id])
    /\ Distinct([i \in 1..Len(hs.results) |-> hs.results[i].entry.id])
    /\ MapIds(hs.scores) = MapIds(hs.ftsResults) \cup MapIds(hs.vectorResults)
    /\ \A i \in 1..Len(hs.ftsResults) :
         LET c == hs.ftsResults[i]
             ranks == VariantRanks(c.id)
         IN  /\ ranks # {}
             /\ c.rank \in ranks
             /\ \A r \in ranks : c.rank <= r
    /\ \A i \in 1..Len(hs.scores) :
         LET c == hs.scores[i]
         IN  /\ ~IsNull(c.ftsRank) <=> c.id \in MapIds(hs.ftsResults)
             /\ ~IsNull(c.vecScore) <=> c.id \in MapIds(hs.vectorResults)
             /\ ~IsNull(c.ftsRank) => Val(c.ftsRank) \in FtsPositions(c.id)
             /\ ~IsNull(c.vecScore) => Val(c.vecScore) \in VecPositions(c.id)
    /\ \A i, j \in 1..Len(hs.scores) :
         i # j => /\ (IsNull(hs.scores[i].ftsRank) \/ hs.scores[i].ftsRank # hs.scores[j].ftsRank)
                  /\ (IsNull(hs.scores[i].vecScore) \/ hs.scores[i].vecScore # hs.scores[j].vecScore)

\* a fact found by two variants with different ranks and by the vector scan,
\* ranked second lexically and first by similarity
Wit_C10 ==
  /\ hs.pc = "done" /\ Len(hs.variants) = 2
  /\ \E i \in 1..Len(hs.scores) :
       LET c == hs.scores[i]
       IN  /\ c.ftsRank = Some(2) /\ c.vecScore = Some(1)
           /\ Cardinality(VariantRanks(c.id)) = 2
           /\ RanksIn(VariantRows(hs.variants[2]), c.id) # {MapGet(hs.ftsResults, c.id).rank}
           /\ RanksIn(VariantRows(hs.variants[2]), c.id) # {}

\* the composite score of a fused candidate, from its recorded positions
CandidateScore(c) ==
  ClaimComposite(IF IsNull(c.ftsRank) THEN 0 ELSE Val(c.ftsRank),
                 IF IsNull(c.vecScore) THEN 0 ELSE Val(c.vecScore),
                 ClaimFreshness(c.entry.expiresAt, hs.scoreNow), c.entry.confidence)

ReturnedIds == {hs.results[i].entry.id : i \in 1..Len(hs.results)}

\* C11: hybridSearch returns at most limit entries, as many as there are
\* candidates up to the limit, each a fused candidate with its composite
\* score, in non-increasing score order, and no candidate that was left out
\* scores strictly higher than a returned one.
Thm_C11_SortedAndCut ==
  hs.pc = "done" =>
    /\ Len(hs.results) <= hs.limit
    /\ Len(hs.results) = Min2(hs.limit, Len(hs.scores))
    /\ \A i \in 1..Len(hs.results) :
         /\ hs.results[i].entry.id \in MapIds(hs.scores)
         /\ hs.results[i].score = CandidateScore(MapGet(hs.scores, hs.results[i].entry.id))
    /\ \A i \in 1..(Len(hs.results) - 1) :
         ~RLess(hs.results[i].score, hs.results[i + 1].score)
    /\ \A j \in 1..Len(hs.scores) :
         hs.scores[j].id \notin ReturnedIds =>
           \A i \in 1..Len(hs.results) :
             ~RLess(hs.results[i].score, CandidateScore(hs.scores[j]))

\* two candidates, a limit of one: the candidate fused first is left out
\* because it scores strictly lower
Wit_C11 ==
  /\ hs.pc = "done" /\ hs.limit = 1 /\ Len(hs.scores) = 2 /\ Len(hs.results) = 1
  /\ hs.scores[1].id \notin ReturnedIds
  /\ RLess(CandidateScore(hs.scores[1]), hs.results[1].score)

\* the words of a text: the maximal runs of non-blank characters, as
\* <<first, last>> index pairs
WordSpans(t) ==
  {w \in (1..Len(t)) \X (1..Len(t)) :
     /\ w[1] <= w[2]
     /\ \A i \in w[1]..w[2] : t[i] # " "
     /\ (w[1] = 1 \/ t[w[1] - 1] = " ")
     /\ (w[2] = Len(t) \/ t[w[2] + 1] = " ")}

\* the words longer than one character, in text order
LongWords(t) ==
  LET keep == {w \in WordSpans(t) : w[2] - w[1] >= 1}
      nth(k) == CHOOSE w \in keep : Cardinality({v \in keep : v[1] < w[1]}) = k - 1
  IN  [k \in 1..Cardinality(keep) |-> SubSeq(t, nth(k)[1], nth(k)[2])]

\* the query of the specification for a free text: quote characters removed,
\* every word longer than one character quoted, the words joined by OR
ClaimTokens(q) == LongWords(SelectSeq(q, LAMBDA c : c # "'" /\ c # "\""))

ClaimQuery(q) ==
  LET ws == ClaimTokens(q)
      piece(k) == (IF k = 1 THEN <<>> ELSE <<" ", "O", "R", " ">>)
                    \o <<"\"">> \o ws[k] \o <<"\"">>
      upto[k \in 0..Len(ws)] == IF k = 0 THEN <<>> ELSE upto[k - 1] \o piece(k)
  IN  upto[Len(ws)]

\* the facts a set of alternative words can retrieve at an instant
Retrievable(words, nowSec, persona) ==
  {facts[i].id : i \in {i \in 1..Len(facts) :
     /\ \E k \in 1..Len(words) : TokenHits(facts[i], words[k]) > 0
     /\ Unexpired(facts[i], nowSec) /\ PersonaOk(facts[i], persona)}}

\* C12: ftsSearch and every variant of hybridSearch hand the index the text
\* with quotes removed, split on blanks, words of one character dropped, each
\* word quoted and the words joined by OR, so that a fact matching any one
\* word is retrievable; a text without a surviving word issues no query and
\* yields no lexical candidate.
Thm_C12_SafeQuery ==
  /\ fs.pc = "done" =>
       /\ fs.queries = (IF ClaimTokens(fs.query) = <<>> THEN <<>> ELSE <<ClaimQuery(fs.query)>>)
       /\ ClaimTokens(fs.query) = <<>> => fs.results = <<>>
       /\ {fs.rows[i].row.id : i \in 1..Len(fs.rows)}
            \subseteq Retrievable(ClaimTokens(fs.query), fs.nowSec, fs.persona)
       /\ Len(fs.rows) =
            Min2(fs.limit,
                 Cardinality(Retrievable(ClaimTokens(fs.query), fs.nowSec, fs.persona)))
  /\ hs.pc \in {"embed", "done"} =>
       LET live == SelectSeq(hs.variants, LAMBDA v : ClaimTokens(v) # <<>>)
       IN  /\ hs.queries = [k \in 1..Len(live) |-> ClaimQuery(live[k])]
           /\ MapIds(hs.ftsResults) =
                UNION {Retrievable(ClaimTokens(live[k]), hs.nowSec, hs.persona) :
                         k \in 1..Len(live)}

\* a quoted query of one-letter words issues no query although facts are
\* stored
Wit_C12 ==
  /\ fs.pc = "done" /\ fs.query = Q_quoted /\ fs.queries = <<>> /\ fs.results = <<>>
  /\ Len(facts) = 2

\* a query with quotes and blanks is issued as "ab" OR "cd", its expansion of
\* one-letter words is skipped, and both alternatives retrieve a fact
Wit_C12_Or ==
  /\ hs.pc = "embed" /\ hs.query = Q_spaced /\ hs.variants = <<Q_spaced, R_singles>>
  /\ hs.queries = <<<<"\"", "a", "b", "\"", " ", "O", "R", " ", "\"", "c", "d", "\"">>>>
  /\ Len(hs.ftsResults) = 2

\* the embedding rows a search scans: those of unexpired facts of the persona
Scanned ==
  {i \in 1..Len(embeddings) :
     \E j \in 1..Len(facts) :
       /\ facts[j].id = embeddings[i].fact_id
       /\ Unexpired(facts[j], hs.nowSec) /\ PersonaOk(facts[j], hs.persona)}

Dot(a, b) == SumSeq([i \in 1..Len(a) |-> a[i] * b[i]])

\* cosine(a, b) is a number: same dimension, neither vector null
CosineDefined(a, b) == Len(a) = Len(b) /\ Dot(a, a) > 0 /\ Dot(b, b) > 0

\* cosine(a, b) >= 1/2, squared to stay within the integers
AtOrAboveFloor(a, b) == Dot(a, b) > 0 /\ 4 * Dot(a, b) * Dot(a, b) >= Dot(a, a) * Dot(b, b)

\* C13: with a query vector at hand, a scanned embedding is discarded if and
\* only if its cosine similarity to the query vector is below 0.5: every
\* unexpired fact of the persona whose similarity is 0.5 or more is a vector
\* candidate, and no other fact is.
CE_C13_SimilarityFloor ==
  (hs.pc = "done" /\ ~IsNull(hs.queryEmbedding)) =>
    \A i \in Scanned :
      CosineDefined(Val(hs.queryEmbedding), embeddings[i].embedding) =>
        (embeddings[i].fact_id \in MapIds(hs.vectorResults)
           <=> AtOrAboveFloor(Val(hs.queryEmbedding), embeddings[i].embedding))

Wit_C14_Key ==
  /\ st.pc = "done" /\ st.thrown
  /\ Cardinality({i \in 1..Len(embeddings) : embeddings[i].fact_id = st.id}) = 1

EmbeddedIds(embs) == {embs[i].fact_id : i \in 1..Len(embs)}

\* the rows of the batch the loop is done with
Attempted == IF bf.pc = "done" /\ ~bf.thrown THEN Len(bf.rows) ELSE bf.idx - 1

\* C19: a backfill pass selects at most batchSize facts, all of them stored
\* and without an embedding when the pass began; at every moment of the pass
\* processed + failed is the number of facts attempted so far, the facts
\* counted as processed are exactly the attempted ones that now have an
\* embedding, one row each; the rows found at the start stay as they were;
\* and no fact is ever embedded twice, also across a pass that was stopped
\* and the pass that follows it.
Thm_C19_BackfillBatch ==
  /\ \A i, j \in 1..Len(embeddings) :
       embeddings[i].fact_id = embeddings[j].fact_id => i = j
  /\ bf.pc # "idle" =>
       /\ Len(bf.rows) <= bf.batchSize
       /\ \A i, j \in 1..Len(bf.rows) : bf.rows[i].id = bf.rows[j].id => i = j
       /\ \A i \in 1..Len(bf.rows) :
            /\ bf.rows[i].id \notin EmbeddedIds(bf.before)
            /\ \E j \in 1..Len(facts) : facts[j] = bf.rows[i]
       /\ ~bf.thrown
       /\ bf.processed + bf.failed = Attempted
       /\ bf.processed =
            Cardinality({i \in 1..Attempted : bf.rows[i].id \in EmbeddedIds(embeddings)})
       /\ Len(embeddings) = Len(bf.before) + bf.processed
       /\ SubSeq(embeddings, 1, Len(bf.before)) = bf.before
       /\ EmbeddedIds(embeddings) \ EmbeddedIds(bf.before)
            \subseteq {bf.rows[i].id : i \in 1..Attempted}
  /\ bf.pc = "done" => Attempted = Len(bf.rows)

\* a pass of batch size 2 is stopped after its first fact; the next pass
\* finds one fact left, embeds it and leaves the first row alone
Wit_C19 ==
  /\ bf.pc = "done" /\ bf.prior = "killed" /\ st.pc = "idle"
  /\ Len(facts) = 2 /\ Len(bf.before) = 1 /\ Len(bf.rows) = 1
  /\ bf.processed = 1 /\ bf.failed = 0
  /\ Len(embeddings) = 2 /\ embeddings[1] = bf.before[1]

\* a pass of batch size 1 leaves the second fact without an embedding to the
\* next pass, after counting a failure
Wit_C19_Batch ==
  /\ bf.pc = "done" /\ bf.batchSize = 1 /\ bf.failed = 1 /\ bf.processed = 0
  /\ Cardinality({i \in 1..Len(facts) : LacksEmbedding(facts[i])}) = 2

\* a flag is given with a value: it is followed by a non-empty argument that
\* is not itself a flag
Given(args, name) ==
  \E i \in 1..(Len(args) - 1) :
    args[i] = Flag(name) /\ args[i + 1] # <<>> /\ ~StartsWithDashes(args[i + 1])

\* a query is given: a non-empty argument that is neither a flag nor the
\* value of one
QueryGiven(args) ==
  \E i \in 1..Len(args) :
    /\ args[i] # <<>> /\ ~StartsWithDashes(args[i])
    /\ i = 1 \/ ~StartsWithDashes(args[i - 1]) \/ args[i - 1] = Flag(N_nohyde)

Invalid(command, args) ==
  \/ command = "store" /\ (~Given(args, N_entity) \/ ~Given(args, N_value))
  \/ command \in {"search", "hybrid"} /\ ~QueryGiven(args)

\* C15: a store without a non-empty entity or value, and a search or hybrid
\* without a query, ends at once with an error message and exit code 1, and
\* leaves both tables as it found them; a valid command does not exit with 1.
Thm_C15_ValidationError ==
  cli.pc # "idle" =>
    IF Invalid(cli.command, cli.args)
    THEN /\ cli.pc = "exited" /\ cli.exit = 1 /\ cli.stderr # "none"
         /\ facts = cli.before.facts /\ embeddings = cli.before.embeddings
         /\ AllIdle
    ELSE cli.exit = 0

\* a store without a value is refused while the store holds a fact and its
\* embedding
Wit_C15 ==
  /\ cli.pc = "exited" /\ cli.exit = 1 /\ cli.command = "store"
  /\ cli.args = <<Flag(N_entity), A_ab>>
  /\ Len(facts) = 1 /\ Len(embeddings) = 1

\* a hybrid search whose only argument is --no-hyde is refused
Wit_C15_Query ==
  /\ cli.pc = "exited" /\ cli.exit = 1 /\ cli.command = "hybrid"
  /\ cli.args = <<Flag(N_nohyde)>> /\ Len(facts) = 1

\* a number within [0, 1]
InUnit(x) == RLeq(RZero, x) /\ RLeq(x, ROne)

\* C20: every stored fact and every entry a search returns has confidence
\* and importance within [0, 1], whatever was supplied, and a fact stored from
\* the command line has confidence 1.
CE_C20_UnitRange ==
  /\ \A i \in 1..Len(facts) : InUnit(facts[i].confidence) /\ InUnit(facts[i].importance)
  /\ \A i \in 1..Len(fs.results) :
       InUnit(fs.results[i].entry.confidence) /\ InUnit(fs.results[i].entry.importance)
  /\ \A i \in 1..Len(hs.results) :
       InUnit(hs.results[i].entry.confidence) /\ InUnit(hs.results[i].entry.importance)
  /\ (cli.command = "store" /\ st.pc # "idle") =>
       \A i \in 1..Len(facts) : facts[i].id = st.id => facts[i].confidence = ROne

\* the position of an event in the order hybridSearch issued and completed
\* its operations, 0 when it did not happen
EventAt(name) ==
  IF \E i \in 1..Len(hs.events) : hs.events[i] = name
  THEN CHOOSE i \in 1..Len(hs.events) : hs.events[i] = name
  ELSE 0

StartEvents == {"hyde_start", "fts_start", "emb_start"}
EndEvents == {"hyde_end", "fts_end", "emb_end"}

\* C16: in a finished hybrid search with expansion, the expansion, the
\* lexical search and the query embedding were each started before any of
\* them completed.
CE_C16_IssuedConcurrently ==
  (hs.pc = "done" /\ hs.useHyde) =>
    /\ \A s \in StartEvents : EventAt(s) > 0
    /\ \A s \in StartEvents, e \in EndEvents : EventAt(s) < EventAt(e)

\* C17: a store, a hybrid search and a backfill that await the provider
\* always come to their end, whether or not the provider ever answers.
CE_C17_AlwaysCompletes ==
  /\ (st.pc = "embedding") ~> (st.pc = "done")
  /\ (hs.pc \in {"hyde", "embed"}) ~> (hs.pc = "done")
  /\ (bf.pc = "embedding") ~> (bf.pc = "done")

\* C18: a store invocation whose write meets another invocation's write does
\* not fail: every finished store invocation has its fact in the table, and
\* none ended on a thrown statement.
CE_C18_ConcurrentStoresPersist ==
  \A p \in Procs :
    cw.proc[p].pc = "done" => (~cw.proc[p].thrown /\ FactExists(cw.proc[p].id))

\* a fact a search scoped to persona p may see
Visible(row, p) == row.persona = "shared" \/ row.persona = p

\* C21: a search scoped to a persona returns only facts of that persona or
\* shared ones, and, when the limit leaves room, every unexpired matching fact
\* that is shared or of that persona.
CE_C21_SharedVisible ==
  /\ (fs.pc = "done" /\ ~IsNull(fs.persona)) =>
       /\ \A i \in 1..Len(fs.results) :
            fs.results[i].entry.persona \in {"shared", Val(fs.persona)}
       /\ Len(fs.results) < fs.limit =>
            \A i \in 1..Len(facts) :
              ( /\ Visible(facts[i], Val(fs.persona))
                /\ Unexpired(facts[i], fs.nowSec)
                /\ \E k \in 1..Len(ClaimTokens(fs.query)) :
                     TokenHits(facts[i], ClaimTokens(fs.query)[k]) > 0 )
              => \E j \in 1..Len(fs.results) : fs.results[j].entry.id = facts[i].id
  /\ (hs.pc = "done" /\ ~IsNull(hs.persona)) =>
       /\ \A i \in 1..Len(hs.results) :
            hs.results[i].entry.persona \in {"shared", Val(hs.persona)}
       /\ Len(hs.results) < hs.limit =>
            \A i \in 1..Len(facts) :
              ( /\ Visible(facts[i], Val(hs.persona))
                /\ Unexpired(facts[i], hs.nowSec)
                /\ \E k \in 1..Len(ClaimTokens(hs.query)) :
                     TokenHits(facts[i], ClaimTokens(hs.query)[k]) > 0 )
              => \E j \in 1..Len(hs.results) : hs.results[j].entry.id = facts[i].id

\* the lexical score of the specification's pure-lexical path
ClaimLexical(norm, fresh, conf) ==
  RAdd(RAdd(RMul(Rat(6, 10), norm), RMul(Rat(25, 100), fresh)), RMul(Rat(15, 100), conf))

\* C22: every result of ftsSearch scores 0.6 * normalized lexical score +
\* 0.25 * freshness + 0.15 * confidence, the normalized lexical score being
\* the one ftsSearch computes from the ranks.
CE_C22_LexicalWeights ==
  fs.pc = "done" =>
    \A i \in 1..Len(fs.results) :
      fs.results[i].score =
        ClaimLexical(FtsScore(fs.rows[i].rank, fs.rows),
                     ClaimFreshness(fs.results[i].entry.expiresAt, fs.nowSec),
                     fs.results[i].entry.confidence)

\* a step that is a pass of the decay engine
PassStep(op) == pr'.runs = pr.runs + 1 /\ pr'.op = op

\* C23: prune removes exactly the facts whose expiresAt is non-null and
\* earlier than now, leaves every other fact as it was, and a second prune at
\* the same instant removes nothing.
Thm_C23_PruneExact ==
  [][PassStep("prune") =>
       LET t == FloorSec(DateNow)
       IN  /\ facts' = SelectSeq(facts, LAMBDA r : IsNull(r.expires_at) \/ Val(r.expires_at) >= t)
           /\ (pr.op = "prune" /\ pr.at = t) => (facts' = facts /\ embeddings' = embeddings)]_vars

\* a prune removed an expired fact and kept one that expires later
Wit_C23 ==
  /\ pr.op = "prune" /\ pr.deleted # {} /\ Len(facts) = 1
  /\ ~IsNull(facts[1].expires_at) /\ Val(facts[1].expires_at) > pr.at

\* a second prune at the same instant, after one that removed a fact
Wit_C23_Again ==
  /\ pr.op = "prune" /\ pr.prev = "prune" /\ pr.deleted = {} /\ pr.at = FloorSec(DateNow)
  /\ Len(facts) = 1 /\ nextId = 3 /\ st.pc = "idle"

\* C24: refreshAccess sets lastAccessed = now and expiresAt = now + TTL(tier)
\* for the stable and active facts it is given and changes nothing else; a
\* permanent fact's expiresAt is null in every state.
Thm_C24_RefreshTiers ==
  /\ [](\A i \in 1..Len(facts) : facts[i].decay_class = "permanent" => IsNull(facts[i].expires_at))
  /\ [][PassStep("refresh") =>
          LET t == FloorSec(DateNow)
          IN  /\ Len(facts') = Len(facts) /\ embeddings' = embeddings
              /\ \A i \in 1..Len(facts) :
                   facts'[i] =
                     IF facts[i].id \in pr'.ids /\ facts[i].decay_class \in {"stable", "active"}
                     THEN [facts[i] EXCEPT !.last_accessed = t,
                             !.expires_at = Some(t + Val(TtlTable(facts[i].decay_class)))]
                     ELSE facts[i]]_vars

\* a refresh of two facts, later than their creation, renewed the stable one
\* and left the session one as it was
Wit_C24 ==
  /\ pr.op = "refresh" /\ pr.ids = {1, 2} /\ pr.at > 0 /\ Len(facts) = 2
  /\ \E i, j \in 1..2 :
       /\ facts[i].decay_class = "stable" /\ facts[i].last_accessed = pr.at
       /\ facts[i].expires_at = Some(pr.at + 7776000)
       /\ facts[j].decay_class = "session" /\ facts[j].last_accessed = 0
       /\ facts[j].expires_at = Some(86400)

\* C25: after a decayConfidence pass every remaining fact has a confidence
\* within [0.1, 1], whatever its tier, and no confidence is negative.
Thm_C25_DecayFloor ==
  [][PassStep("decay") =>
       \A i \in 1..Len(facts') :
         /\ RLeq(Rat(1, 10), facts'[i].confidence) /\ RLeq(facts'[i].confidence, ROne)
         /\ \E j \in 1..Len(facts) :
              /\ facts[j].id = facts'[i].id
              /\ facts'[i].confidence \in {facts[j].confidence, RMul(facts[j].confidence, Rat(1, 2))}]_vars

\* a pass halved a session fact to 0.5 and deleted a faint one
Wit_C25 ==
  /\ pr.op = "decay" /\ pr.deleted # {} /\ Len(facts) = 1
  /\ facts[1].decay_class = "session" /\ facts[1].confidence = Rat(1, 2)

\* the unexpired facts of a fact's (persona, entity, key)
GroupOf(row, rows, t) ==
  {i \in 1..Len(rows) : SameKey(rows[i], row) /\ Unexpired(rows[i], t)}

CE_C27_StoreSurvivesBackfill ==
  (st.pc = "done" /\ FactExists(st.id)) =>
    /\ ~st.thrown
    /\ Cardinality({i \in 1..Len(embeddings) : embeddings[i].fact_id = st.id}) <= 1

\* C28: under repeated backfill passes, every fact whose text the provider
\* accepts eventually has an embedding.
CE_C28_BackfillProgress ==
  \A id \in 1..MaxFacts :
    (\E i \in 1..Len(facts) : facts[i].id = id /\ ~Rejects(facts[i].text) /\ st.pc = "idle")
      ~> HasEmbedding(id)

\* C29: a step of ftsSearch or hybridSearch leaves every fact row and every
\* embedding row as it was.
Thm_C29_SearchReadOnly ==
  [][(hs' # hs \/ fs' # fs) => (facts' = facts /\ embeddings' = embeddings)]_vars

\* a stable fact is returned by a search made after the clock advanced, and
\* its row still carries the times of its creation
Wit_C29 ==
  /\ fs.pc = "done" /\ fs.nowSec > 0 /\ Len(fs.results) = 1
  /\ \E i \in 1..Len(facts) :
       /\ facts[i].id = fs.results[1].entry.id /\ facts[i].decay_class = "stable"
       /\ facts[i].last_accessed = 0 /\ facts[i].expires_at = Some(7776000)

\* the stored row of an id
StoredRow(id) == facts[CHOOSE i \in 1..Len(facts) : facts[i].id = id]

\* C30: every entry a search returns reports the confidence and importance
\* of the stored row, 0 included.
CE_C30_RoundTrip ==
  /\ fs.pc = "done" =>
       \A i \in 1..Len(fs.results) :
         /\ fs.results[i].entry.confidence = StoredRow(fs.results[i].entry.id).confidence
         /\ fs.results[i].entry.importance = StoredRow(fs.results[i].entry.id).importance
  /\ hs.pc = "done" =>
       \A i \in 1..Len(hs.results) :
         /\ hs.results[i].entry.confidence = StoredRow(hs.results[i].entry.id).confidence
         /\ hs.results[i].entry.importance = StoredRow(hs.results[i].entry.id).importance

====
